---- MODULE Spec2Model ----
(***************************************************************************)
(* BeFriend: the WhatsApp call lifecycle and the turn endpoints.           *)
(*                                                                         *)
(* Spec follows the call lifecycle, SpecTurn the speech-to-text,           *)
(* text-to-speech and completion routes under concurrent requests,         *)
(* SpecAudioTurn one turn through these three routes in sequence,          *)
(* SpecHistory the history window of the completion service, SpecEndCall   *)
(* twilioService.endCall beside the call-status route, SpecPlace           *)
(* twilioService.initiateWhatsAppCall beside the call route, SpecSession   *)
(* the call route under one user's session, SpecPrompt and SpecClean the   *)
(* prompt assembly and the response cleanup of the completion service on   *)
(* every input within the bounds.                                          *)
(*                                                                         *)
(* The model follows the three HTTP handlers that place and track a call   *)
(* (POST /api/whatsapp/webhook, POST /api/whatsapp/call and                *)
(* POST /api/whatsapp/call-status) and twilioService.updateCallStatus.     *)
(* Every handler is cut into atomic steps at its awaited database and      *)
(* provider calls, so that concurrent requests interleave exactly where    *)
(* the Node.js event loop lets them.                                       *)
(***************************************************************************)
EXTENDS Integers, Sequences, FiniteSets, TLC

(***************************************************************************)
(* Bounds of the model.                                                    *)
(***************************************************************************)
\* requests (of all kinds together) received in one behaviour
MaxRequests == 3
\* largest callCredits balance a user starts a behaviour with
MaxStartCredits == 1
\* requests the turn endpoints receive in one behaviour
MaxTurnRequests == 2
\* rows of the Message table when the history window is read
MaxMessages == 12
\* rows among them that belong to another conversation than the one read
MaxOtherMessages == 1
\* messages of the history constructPrompt is applied to
MaxHistory == 3
\* pieces a raw completion text is put together from
MaxPieces == 4

(***************************************************************************)
(* Constants of the program.                                               *)
(***************************************************************************)
\* togetherai.ts: const MAX_MESSAGES_HISTORY = 10
MAX_MESSAGES_HISTORY == 10

(***************************************************************************)
(* Values.                                                                 *)
(***************************************************************************)
\* undefined / null / an absent request field, for string-valued fields
None == "none"
\* NULL in an integer-valued column (an id, a timestamp, a duration)
Null == -1

\* rows of the User table
Users == {"u1", "u2"}
\* a well-formed id that is the id of no User row
GhostUser == "ghost"
\* rows of the Persona table (reference data)
Personas == {"p1"}

\* User.phoneNumber, as the sequence of its characters
UserPhone == [u \in Users |-> IF u = "u1" THEN <<"+", "1">> ELSE <<"+", "2">>]

\* enum CallStatus
CallStatus ==
  {"initiated", "ringing", "in_progress", "completed", "failed",
   "busy", "no_answer", "canceled"}

\* the statuses no transition leaves (spec 4.5)
Terminal == {"completed", "failed", "busy", "no_answer", "canceled"}

(***************************************************************************)
(* Inputs the model draws requests from.                                   *)
(***************************************************************************)
\* body.phoneNumber; the empty string is falsy in JavaScript
PhoneInputs == {<< >>, <<"1">>, <<"+", "1">>}
\* body.personaId
PersonaInputs == {None} \cup Personas
\* body.userId
UserIdInputs == {None, GhostUser} \cup Users
\* session.user.id
SessionInputs == {None} \cup Users
\* Body of an inbound WhatsApp message
BodyInputs == {<<"H", "i">>, <<" ", "h", "I", " ">>, <<"h", "i", "!">>, << >>}
\* From of an inbound WhatsApp message
FromInputs == {<< >>, <<"+", "1">>}
\* CallStatus form field of a status callback, as Twilio words it
CallStatusInputs ==
  {None, "ringing", "in-progress", "completed", "Completed", "failed"}
\* status argument of updateCallStatus
StatusArgs == {"ringing", "in_progress", "completed", "failed"}
\* body.conversationId: a Conversation id, which may or may not be the id of
\* a row by the time it is used
ConversationInputs == {Null, 1}
\* CallDuration form field of a status callback; absent reads like ''
CallDurationInputs == {<< >>, <<"4", "2">>, <<"7">>}
\* duration argument of updateCallStatus
DurationArgs == {Null, 0, 42}
\* errorMessage argument of updateCallStatus
ErrorArgs == {None, "err"}

(***************************************************************************)
(* Pure functions.                                                         *)
(***************************************************************************)
\* phoneNumber.startsWith('+') ? phoneNumber : `+${phoneNumber}`
NormalizePhone(p) == IF Len(p) > 0 /\ Head(p) = "+" THEN p ELSE <<"+">> \o p

\* String.prototype.toLowerCase on one character of the model's alphabet
LowerChar(c) ==
  CASE c = "H" -> "h" [] c = "I" -> "i" [] c = "A" -> "a" [] OTHER -> c

\* String.prototype.toLowerCase on a sequence of characters
ToLowerCase(s) == [i \in 1..Len(s) |-> LowerChar(s[i])]

\* the white space of trim() and of \s among the characters that occur
IsWhitespace(c) == c \in {" ", "\n"}

RECURSIVE TrimStart(_)
TrimStart(s) ==
  IF Len(s) > 0 /\ IsWhitespace(Head(s)) THEN TrimStart(Tail(s)) ELSE s

RECURSIVE TrimEnd(_)
TrimEnd(s) ==
  IF Len(s) > 0 /\ IsWhitespace(s[Len(s)])
    THEN TrimEnd(SubSeq(s, 1, Len(s) - 1)) ELSE s

\* String.prototype.trim
Trim(s) == TrimEnd(TrimStart(s))

\* the comparison without the trim
IsTrigger_Untrimmed(body) == ToLowerCase(body) = <<"h", "i">>

\* messageBody.trim().toLowerCase() === 'hi'
IsTrigger(body) == ToLowerCase(Trim(body)) = <<"h", "i">>

\* value of one decimal digit, -1 for any other character
DigitValue(c) ==
  CASE c = "0" -> 0 [] c = "1" -> 1 [] c = "2" -> 2 [] c = "3" -> 3
    [] c = "4" -> 4 [] c = "5" -> 5 [] c = "6" -> 6 [] c = "7" -> 7
    [] c = "8" -> 8 [] c = "9" -> 9 [] OTHER -> -1

RECURSIVE ParseDigits(_, _)
ParseDigits(s, acc) ==
  IF Len(s) = 0 \/ DigitValue(Head(s)) < 0 THEN acc
  ELSE ParseDigits(Tail(s), 10 * acc + DigitValue(Head(s)))

\* parseInt(CallDuration || '0'): an absent or empty field reads as '0'
ParseDuration(d) == IF d = << >> THEN 0 ELSE ParseDigits(d, 0)

\* CallStatus.toLowerCase() on the words of CallStatusInputs: Twilio's own
\* words are lower case already, a capitalised one loses its capital
StatusToLowerCase(s) == IF s = "Completed" THEN "completed" ELSE s

(***************************************************************************)
(* State.                                                                  *)
(***************************************************************************)
VARIABLES
  callCredits,     \* User.callCredits, per user
  creditsAtStart,  \* the balances the behaviour started with (history)
  conversations,   \* Conversation table; a row's id is its index
  callLogs,        \* CallLog table; a row's id is its index
  twilioCalls,     \* calls the provider accepted; a call's sid is its index
  clock,           \* the wall clock read by new Date()
  webhookReqs,     \* POST /api/whatsapp/webhook requests
  callReqs,        \* POST /api/whatsapp/call requests
  statusReqs       \* status callbacks: the route and updateCallStatus

\* the tables and requests of the turn endpoints
VARIABLES
  subscriptionTier,  \* User.subscriptionTier, per user
  personas,          \* Persona table, by id: voiceId, isPremium, memoryEnabled
  voiceProfiles,     \* VoiceProfile table, by id: isDefault, isPremium
  userPreferences,   \* UserPreferences.preferredVoiceId, per user
  messages,          \* Message table; a row's id is its index
  updatedAt,         \* Conversation.updatedAt, per conversation id
  ttsReqs,           \* POST requests of the text-to-speech route
  speechCalls,       \* invocations of the speech-synthesis provider
  generateReqs,      \* POST /api/ai/generate requests
  completionCalls,   \* invocations of the completion provider
  history            \* the last window getConversationHistory returned

\* the remaining entry points
VARIABLES
  endCallReqs,       \* calls of twilioService.endCall
  sttReqs,           \* POST /api/voice/stt requests
  transcriptionCalls \* invocations of the transcription provider

\* arguments and results of the pure functions of the completion service
VARIABLES
  promptArgs,        \* the arguments constructPrompt is applied to
  prompt,            \* the prompt it returned
  rawResponse,       \* the text cleanResponse is applied to
  cleanedResponse    \* the text it returned

pureVars == <<promptArgs, prompt, rawResponse, cleanedResponse>>

restVars == <<endCallReqs, sttReqs, transcriptionCalls, pureVars>>

turnVars ==
  <<subscriptionTier, personas, voiceProfiles, userPreferences, messages,
    updatedAt, ttsReqs, speechCalls, generateReqs, completionCalls, history>>

vars ==
  <<callCredits, creditsAtStart, conversations, callLogs, twilioCalls, clock,
    webhookReqs, callReqs, statusReqs, turnVars, restVars>>

\* webhook requests whose fetch of the call endpoint is still to arrive
PendingFetch == {w \in 1..Len(webhookReqs) : webhookReqs[w].pc = "fetch"}

\* requests received so far, the pending fetches counted with them
Received ==
  Len(webhookReqs) + Len(callReqs) + Len(statusReqs)
    + Cardinality(PendingFetch) + Len(endCallReqs)

\* constructPrompt not called yet
NoPromptArgs ==
  [userInput |-> None, personaTemplate |-> None,
   conversationHistory |-> << >>, includePersonaContext |-> FALSE]

\* no read of the history yet
NoHistory == [conversationId |-> Null, asOf |-> 0, window |-> << >>]

\* the turn endpoints have received nothing and their tables are empty
TurnIdle ==
  /\ subscriptionTier = [u \in Users |-> "FREE"]
  /\ personas = << >>
  /\ voiceProfiles = << >>
  /\ userPreferences = [u \in Users |-> None]
  /\ messages = << >>
  /\ updatedAt = << >>
  /\ ttsReqs = << >>
  /\ speechCalls = << >>
  /\ generateReqs = << >>
  /\ completionCalls = << >>
  /\ history = NoHistory
  /\ sttReqs = << >>
  /\ transcriptionCalls = << >>

\* no pure function has been applied
PureIdle ==
  /\ promptArgs = NoPromptArgs
  /\ prompt = << >>
  /\ rawResponse = << >>
  /\ cleanedResponse = << >>

Init ==
  /\ PureIdle
  /\ endCallReqs = << >>
  /\ TurnIdle
  /\ callCredits \in [Users -> 0..MaxStartCredits]
  /\ creditsAtStart = callCredits
  /\ conversations = << >>
  /\ callLogs = << >>
  /\ twilioCalls = << >>
  /\ clock = 0
  /\ webhookReqs = << >>
  /\ callReqs = << >>
  /\ statusReqs = << >>

(***************************************************************************)
(* POST /api/whatsapp/call                                                 *)
(***************************************************************************)
\* the check written with < : a user with no credit left passes it
InsufficientCredits_Strict(credits) == credits < 0

\* user.callCredits <= 0
InsufficientCredits(credits) == credits <= 0

\* !conversationRecord && userId && personaId
NeedsConversation(conversationId, userId, personaId) ==
  conversationId = Null /\ userId # None /\ personaId # None

\* the handler going on to the CallLog although the provider refused the call
AfterTwilio_IgnoreFailure(accepted, userId) ==
  IF userId # None THEN "callLog" ELSE "done"

\* where the handler goes once twilioClient.calls.create has settled: a
\* rejection is thrown to the catch block; after an accepted call the CallLog
\* and the decrement only happen for a known userId
AfterTwilio(accepted, userId) ==
  IF ~accepted THEN "done"
  ELSE IF userId # None THEN "callLog" ELSE "done"

\* a request of the call route as it is received
NewCallReq(origin) ==
  [origin |-> origin, pc |-> "done",
   userId |-> None, phoneNumber |-> << >>, personaId |-> None,
   conversationRecord |-> Null, sid |-> Null, httpStatus |-> 0,
   conversationCreated |-> Null, callLogCreated |-> Null,
   credited |-> 0]

\* the handler answering an unknown userId like a user without credits
CallRequest_UnknownUserForbidden(origin, phoneNumber, personaId, conversationId, bodyUserId, sessionUser) ==
  LET userId == IF bodyUserId # None THEN bodyUserId ELSE sessionUser
      r0 == NewCallReq(origin)
  IN IF phoneNumber = << >>
       THEN [r0 EXCEPT !.httpStatus = 400]
     ELSE IF userId # None /\ userId \notin Users
       THEN [r0 EXCEPT !.userId = userId, !.httpStatus = 403]
     ELSE IF userId # None /\ InsufficientCredits(callCredits[userId])
       THEN [r0 EXCEPT !.userId = userId, !.httpStatus = 403]
     ELSE [r0 EXCEPT
             !.userId = userId,
             !.phoneNumber = NormalizePhone(phoneNumber),
             !.personaId = personaId,
             !.conversationRecord = conversationId,
             !.pc = IF NeedsConversation(conversationId, userId, personaId)
                      THEN "conversation" ELSE "twilio"]

\* Lines 12-51: parse the body, validate phoneNumber, resolve userId from the
\* body or else the session, read the user's callCredits and check them.
\* origin is 0 for a request from a client and the index of the webhook
\* request whose fetch this is otherwise.  The value is the request as the
\* handler holds it when it first waits on a write.
CallRequest(origin, phoneNumber, personaId, conversationId, bodyUserId, sessionUser) ==
  LET userId == IF bodyUserId # None THEN bodyUserId ELSE sessionUser
      r0 == NewCallReq(origin)
  IN IF phoneNumber = << >>
       THEN [r0 EXCEPT !.httpStatus = 400]
     ELSE IF userId # None /\ userId \notin Users
       THEN [r0 EXCEPT !.userId = userId, !.httpStatus = 404]
     ELSE IF userId # None /\ InsufficientCredits(callCredits[userId])
       THEN [r0 EXCEPT !.userId = userId, !.httpStatus = 403]
     ELSE [r0 EXCEPT
             !.userId = userId,
             !.phoneNumber = NormalizePhone(phoneNumber),
             !.personaId = personaId,
             !.conversationRecord = conversationId,
             !.pc = IF NeedsConversation(conversationId, userId, personaId)
                      THEN "conversation" ELSE "twilio"]

\* a request arriving from a client whose session is sessionUser's (None
\* without a session)
CallPOST_Session(sessionUser) ==
  /\ Received < MaxRequests
  /\ \E phoneNumber \in PhoneInputs, personaId \in PersonaInputs,
        conversationId \in ConversationInputs, bodyUserId \in UserIdInputs :
       callReqs' =
         Append(callReqs,
                CallRequest(0, phoneNumber, personaId, conversationId,
                            bodyUserId, sessionUser))
  /\ UNCHANGED <<callCredits, creditsAtStart, conversations, callLogs,
                 twilioCalls, clock, webhookReqs, statusReqs>>

\* a request arriving from a client of the web application
CallPOST_Client == \E sessionUser \in SessionInputs : CallPOST_Session(sessionUser)

\* Lines 53-64: prisma.conversation.create for the user and persona.  The
\* persona is a foreign key; Personas holds every id the inputs can name.
CallPOST_Conversation(i) ==
  LET r == callReqs[i]
      id == Len(conversations) + 1
  IN /\ r.pc = "conversation"
     /\ conversations' =
          Append(conversations,
                 [userId |-> r.userId, personaId |-> r.personaId,
                  endedAt |-> Null, endedAtWrites |-> 0])
     /\ callReqs' = [callReqs EXCEPT ![i] =
          [r EXCEPT !.conversationRecord = id, !.conversationCreated = id,
                    !.pc = "twilio"]]
     /\ UNCHANGED <<callCredits, creditsAtStart, callLogs, twilioCalls, clock,
                    webhookReqs, statusReqs>>

\* Lines 66-95: the credentials check and twilioClient.calls.create.  The
\* call is accepted (the provider issues a sid) or the step throws (missing
\* credentials, or the provider rejects the request) and the catch block
\* answers 500.
CallPOST_Twilio(i) ==
  LET r == callReqs[i]
      sid == Len(twilioCalls) + 1
  IN /\ r.pc = "twilio"
     /\ \E accepted \in BOOLEAN :
          /\ twilioCalls' =
               IF accepted
                 THEN Append(twilioCalls,
                             [to |-> r.phoneNumber, userId |-> r.userId,
                              personaId |-> r.personaId,
                              conversationId |-> r.conversationRecord])
                 ELSE twilioCalls
          /\ callReqs' = [callReqs EXCEPT ![i] =
               [r EXCEPT
                  !.sid = IF accepted THEN sid ELSE Null,
                  !.pc = AfterTwilio(accepted, r.userId),
                  !.httpStatus =
                    IF AfterTwilio(accepted, r.userId) = "done"
                      THEN (IF accepted THEN 200 ELSE 500) ELSE 0]]
     /\ UNCHANGED <<callCredits, creditsAtStart, conversations, callLogs,
                    clock, webhookReqs, statusReqs>>

\* Lines 98-110: prisma.callLog.create.  conversationId is a foreign key to
\* Conversation: naming a row that does not exist makes the create throw,
\* and the catch block answers 500.
CallPOST_CallLog(i) ==
  LET r == callReqs[i]
      conversationExists ==
        r.conversationRecord = Null
          \/ r.conversationRecord \in 1..Len(conversations)
  IN /\ r.pc = "callLog"
     /\ IF conversationExists
          THEN /\ callLogs' =
                    Append(callLogs,
                           [userId |-> r.userId,
                            conversationId |-> r.conversationRecord,
                            twilioCallSid |-> r.sid,
                            phoneNumber |-> r.phoneNumber,
                            status |-> "initiated", endTime |-> Null,
                            duration |-> Null, errorMessage |-> None])
               /\ callReqs' = [callReqs EXCEPT ![i] =
                    [r EXCEPT !.callLogCreated = Len(callLogs) + 1,
                              !.pc = "decrement"]]
          ELSE /\ callLogs' = callLogs
               /\ callReqs' = [callReqs EXCEPT ![i] =
                    [r EXCEPT !.pc = "done", !.httpStatus = 500]]
     /\ UNCHANGED <<callCredits, creditsAtStart, conversations, twilioCalls,
                    clock, webhookReqs, statusReqs>>

\* Lines 112-123: prisma.user.update with callCredits: { decrement: 1 }, an
\* atomic but unconditional decrement, then the success response.
CallPOST_Decrement(i) ==
  LET r == callReqs[i]
  IN /\ r.pc = "decrement"
     /\ callCredits' = [callCredits EXCEPT ![r.userId] = @ - 1]
     /\ callReqs' = [callReqs EXCEPT ![i] =
          [r EXCEPT !.credited = 1, !.pc = "done", !.httpStatus = 200]]
     /\ UNCHANGED <<creditsAtStart, conversations, callLogs, twilioCalls,
                    clock, webhookReqs, statusReqs>>

(***************************************************************************)
(* POST /api/whatsapp/webhook                                              *)
(***************************************************************************)
\* Lines 10-42: parse the payload and compare the trimmed, lower-cased Body
\* with the trigger; a trigger goes on to fetch the call endpoint, any other
\* body is answered at once.
WebhookPOST ==
  /\ Received + 1 < MaxRequests
  /\ \E body \in BodyInputs, from \in FromInputs, personaId \in PersonaInputs :
       webhookReqs' =
         Append(webhookReqs,
                IF IsTrigger(body)
                  THEN [body |-> body, from |-> from, personaId |-> personaId,
                        pc |-> "fetch", callReq |-> 0, httpStatus |-> 0]
                  ELSE [body |-> body, from |-> << >>, personaId |-> None,
                        pc |-> "done", callReq |-> 0, httpStatus |-> 200])
  /\ UNCHANGED <<callCredits, creditsAtStart, conversations, callLogs,
                 twilioCalls, clock, callReqs, statusReqs>>

\* Lines 35-51: the fetch reaches the call route.  The payload is
\* {phoneNumber: from, personaId}: no userId, no conversationId, and a
\* server-side fetch carries no session cookie.
CallPOST_Webhook(w) ==
  /\ webhookReqs[w].pc = "fetch"
  /\ callReqs' =
       Append(callReqs,
              CallRequest(w, webhookReqs[w].from, webhookReqs[w].personaId,
                          Null, None, None))
  /\ webhookReqs' = [webhookReqs EXCEPT ![w] =
       [@ EXCEPT !.pc = "await", !.callReq = Len(callReqs) + 1]]
  /\ UNCHANGED <<callCredits, creditsAtStart, conversations, callLogs,
                 twilioCalls, clock, statusReqs>>

\* Lines 53-63: the call route has answered; anything but a 2xx answer is
\* reported as 500.
WebhookPOST_Response(w) ==
  LET q == webhookReqs[w]
  IN /\ q.pc = "await"
     /\ callReqs[q.callReq].pc = "done"
     /\ webhookReqs' = [webhookReqs EXCEPT ![w] =
          [q EXCEPT !.pc = "done",
                    !.httpStatus =
                      IF callReqs[q.callReq].httpStatus = 200 THEN 200 ELSE 500]]
     /\ UNCHANGED <<callCredits, creditsAtStart, conversations, callLogs,
                    twilioCalls, clock, callReqs, statusReqs>>

(***************************************************************************)
(* Status callbacks: POST /api/whatsapp/call-status and                    *)
(* twilioService.updateCallStatus                                          *)
(***************************************************************************)
\* a lookup that settles for the first row of the table
FindCallLog_AnyRow(sid) == IF Len(callLogs) > 0 THEN 1 ELSE Null

\* prisma.callLog.findFirst({ where: { twilioCallSid } }): the id of the first
\* matching row, Null if there is none
FindCallLog(sid) ==
  LET found == {id \in 1..Len(callLogs) : callLogs[id].twilioCallSid = sid}
  IN IF found = {} THEN Null
     ELSE CHOOSE id \in found : \A other \in found : id <= other

\* a status callback as it is received
NewStatusReq(via, sid, sigValid) ==
  [via |-> via, sid |-> sid, sigValid |-> sigValid, pc |-> "done",
   callLogId |-> Null, status |-> None, endTime |-> Null, duration |-> Null,
   errorMessage |-> None, endsConversation |-> FALSE, httpStatus |-> 0,
   CallDuration |-> << >>]

\* call-status route, lines 7-37: read the form, find the CallLog, build
\* updateData.  An unknown sid is acknowledged at once; a form without
\* CallStatus makes CallStatus.toLowerCase() throw, which the catch block
\* answers with 500.  The request's signature is never looked at.
StatusRequest(CallSid, CallStatusField, CallDuration, sigValid) ==
  LET id == FindCallLog(CallSid)
      r0 == NewStatusReq("route", CallSid, sigValid)
      completed == CallStatusField = "completed"
  IN IF id = Null THEN [r0 EXCEPT !.httpStatus = 200]
     ELSE IF CallStatusField = None
       THEN [r0 EXCEPT !.callLogId = id, !.httpStatus = 500]
     ELSE [r0 EXCEPT
             !.callLogId = id,
             !.status = StatusToLowerCase(CallStatusField),
             !.endTime = IF completed THEN clock ELSE Null,
             !.duration = IF completed THEN ParseDuration(CallDuration) ELSE Null,
             !.CallDuration = IF completed THEN CallDuration ELSE << >>,
             !.endsConversation =
               completed /\ callLogs[id].conversationId # Null,
             !.pc = IF completed /\ callLogs[id].conversationId # Null
                      THEN "conversation" ELSE "callLog"]

\* the provider signs the callbacks of the calls it placed; anybody can post
\* an unsigned one with any sid
StatusPOST ==
  /\ Received < MaxRequests
  /\ \E CallSid \in 1..(Len(twilioCalls) + 1),
        CallStatusField \in CallStatusInputs,
        CallDuration \in CallDurationInputs, sigValid \in BOOLEAN :
       LET r == StatusRequest(CallSid, CallStatusField, CallDuration, sigValid)
       IN /\ sigValid => CallSid <= Len(twilioCalls)
          /\ statusReqs' = Append(statusReqs, r)
          /\ clock' = IF r.endTime # Null THEN clock + 1 ELSE clock
  /\ UNCHANGED <<callCredits, creditsAtStart, conversations, callLogs,
                 twilioCalls, webhookReqs, callReqs>>

\* prisma.conversation.update({ data: { endedAt: new Date() } }) on the
\* CallLog's conversation (route lines 39-44, service lines 184-189)
EndConversation(id) ==
  [conversations EXCEPT ![id] =
     [@ EXCEPT !.endedAt = clock, !.endedAtWrites = @ + 1]]

\* call-status route, lines 38-44
StatusPOST_Conversation(j) ==
  LET r == statusReqs[j]
  IN /\ r.via = "route"
     /\ r.pc = "conversation"
     /\ conversations' = EndConversation(callLogs[r.callLogId].conversationId)
     /\ clock' = clock + 1
     /\ statusReqs' = [statusReqs EXCEPT ![j] = [r EXCEPT !.pc = "callLog"]]
     /\ UNCHANGED <<callCredits, creditsAtStart, callLogs, twilioCalls,
                    webhookReqs, callReqs>>

\* the update writing the status alone
UpdateCallLog_StatusOnly(r) ==
  [callLogs EXCEPT ![r.callLogId] = [@ EXCEPT !.status = r.status]]

\* prisma.callLog.update({ where: { id }, data: updateData }): only the keys
\* updateData holds are written
UpdateCallLog(r) ==
  [callLogs EXCEPT ![r.callLogId] =
     [@ EXCEPT
        !.status = r.status,
        !.endTime = IF r.endTime # Null THEN r.endTime ELSE @,
        !.duration = IF r.duration # Null THEN r.duration ELSE @,
        !.errorMessage = IF r.errorMessage # None THEN r.errorMessage ELSE @]]

\* call-status route, lines 47-57: the update, which Prisma refuses with a
\* validation error when status is no member of enum CallStatus (Twilio's
\* 'in-progress' and 'no-answer' are spelled with a hyphen), then the
\* acknowledgment
StatusPOST_CallLog(j) ==
  LET r == statusReqs[j]
  IN /\ r.via = "route"
     /\ r.pc = "callLog"
     /\ IF r.status \in CallStatus
          THEN /\ callLogs' = UpdateCallLog(r)
               /\ statusReqs' = [statusReqs EXCEPT ![j] =
                    [r EXCEPT !.pc = "done", !.httpStatus = 200]]
          ELSE /\ callLogs' = callLogs
               /\ statusReqs' = [statusReqs EXCEPT ![j] =
                    [r EXCEPT !.pc = "done", !.httpStatus = 500]]
     /\ UNCHANGED <<callCredits, creditsAtStart, conversations, twilioCalls,
                    clock, webhookReqs, callReqs>>

\* updateCallStatus, lines 151-175: find the CallLog (an unknown sid throws)
\* and build updateData.  httpStatus 200 stands for a returned promise and
\* 500 for a rejected one.
UpdateCallStatusRequest(callSid, status, duration, errorMessage) ==
  LET id == FindCallLog(callSid)
      r0 == NewStatusReq("service", callSid, TRUE)
      ended == status = "completed" \/ status = "failed"
  IN IF id = Null THEN [r0 EXCEPT !.httpStatus = 500]
     ELSE [r0 EXCEPT
             !.callLogId = id,
             !.status = status,
             !.endTime = IF ended THEN clock ELSE Null,
             !.duration =
               IF ended /\ duration # Null /\ duration # 0 THEN duration
               ELSE Null,
             !.errorMessage =
               IF ended /\ errorMessage # None THEN errorMessage ELSE None,
             !.endsConversation =
               status = "completed" /\ callLogs[id].conversationId # Null,
             !.pc = "callLog"]

updateCallStatus ==
  /\ Received < MaxRequests
  /\ \E callSid \in 1..(Len(twilioCalls) + 1), status \in StatusArgs,
        duration \in DurationArgs, errorMessage \in ErrorArgs :
       LET r == UpdateCallStatusRequest(callSid, status, duration, errorMessage)
       IN /\ statusReqs' = Append(statusReqs, r)
          /\ clock' = IF r.endTime # Null THEN clock + 1 ELSE clock
  /\ UNCHANGED <<callCredits, creditsAtStart, conversations, callLogs,
                 twilioCalls, webhookReqs, callReqs>>

\* updateCallStatus, lines 177-181
updateCallStatus_CallLog(j) ==
  LET r == statusReqs[j]
  IN /\ r.via = "service"
     /\ r.pc = "callLog"
     /\ callLogs' = UpdateCallLog(r)
     /\ statusReqs' = [statusReqs EXCEPT ![j] =
          [r EXCEPT
             !.pc = IF r.endsConversation THEN "conversation" ELSE "done",
             !.httpStatus = IF r.endsConversation THEN 0 ELSE 200]]
     /\ UNCHANGED <<callCredits, creditsAtStart, conversations, twilioCalls,
                    clock, webhookReqs, callReqs>>

\* updateCallStatus, lines 183-191
updateCallStatus_Conversation(j) ==
  LET r == statusReqs[j]
  IN /\ r.via = "service"
     /\ r.pc = "conversation"
     /\ conversations' = EndConversation(callLogs[r.callLogId].conversationId)
     /\ clock' = clock + 1
     /\ statusReqs' = [statusReqs EXCEPT ![j] =
          [r EXCEPT !.pc = "done", !.httpStatus = 200]]
     /\ UNCHANGED <<callCredits, creditsAtStart, callLogs, twilioCalls,
                    webhookReqs, callReqs>>

Next ==
  \/ CallPOST_Client /\ UNCHANGED <<turnVars, restVars>>
  \/ \E i \in 1..Len(callReqs) : CallPOST_Conversation(i) /\ UNCHANGED <<turnVars, restVars>>
  \/ \E i \in 1..Len(callReqs) : CallPOST_Twilio(i) /\ UNCHANGED <<turnVars, restVars>>
  \/ \E i \in 1..Len(callReqs) : CallPOST_CallLog(i) /\ UNCHANGED <<turnVars, restVars>>
  \/ \E i \in 1..Len(callReqs) : CallPOST_Decrement(i) /\ UNCHANGED <<turnVars, restVars>>
  \/ WebhookPOST /\ UNCHANGED <<turnVars, restVars>>
  \/ \E w \in 1..Len(webhookReqs) : CallPOST_Webhook(w) /\ UNCHANGED <<turnVars, restVars>>
  \/ \E w \in 1..Len(webhookReqs) : WebhookPOST_Response(w) /\ UNCHANGED <<turnVars, restVars>>
  \/ StatusPOST /\ UNCHANGED <<turnVars, restVars>>
  \/ \E j \in 1..Len(statusReqs) : StatusPOST_Conversation(j) /\ UNCHANGED <<turnVars, restVars>>
  \/ \E j \in 1..Len(statusReqs) : StatusPOST_CallLog(j) /\ UNCHANGED <<turnVars, restVars>>
  \/ updateCallStatus /\ UNCHANGED <<turnVars, restVars>>
  \/ \E j \in 1..Len(statusReqs) : updateCallStatus_CallLog(j) /\ UNCHANGED <<turnVars, restVars>>
  \/ \E j \in 1..Len(statusReqs) : updateCallStatus_Conversation(j) /\ UNCHANGED <<turnVars, restVars>>

Spec == Init /\ [][Next]_vars

(***************************************************************************)
(* The turn endpoints: tables and inputs.                                  *)
(***************************************************************************)
\* Persona rows: p2 is the premium persona
PersonaIds == {"p1", "p2"}
\* VoiceProfile rows: v2 is the premium voice
VoiceIds == {"v1", "v2"}
\* enum SubscriptionTier, the two tiers the routes tell apart
SubscriptionTier == {"FREE", "PREMIUM"}

\* body.text, body.transcribedText
TextInputs == {"", "hi"}
\* body.returnType, 'stream' when absent
ReturnTypeInputs == {"stream", "url"}
\* body.voiceId: absent, a stored voice, an id the store does not hold
VoiceIdInputs == {None, "v9"} \cup VoiceIds
\* body.personaId: absent, a stored persona, an id the table does not hold
PersonaIdInputs == {None, "p9"} \cup PersonaIds
\* body.conversationId: absent, a stored conversation, an unknown id
TurnConversationInputs == {Null, 1, 2, 3}

\* turn requests received so far
TurnReceived == Len(ttsReqs) + Len(generateReqs) + Len(sttReqs)

\* the database the turn endpoints start from: u1 is on the FREE tier and
\* owns conversation 1, u2 is on the PREMIUM tier and owns conversation 2
InitTurn ==
  /\ callCredits = [u \in Users |-> 0]
  /\ creditsAtStart = callCredits
  /\ callLogs = << >>
  /\ twilioCalls = << >>
  /\ clock = 0
  /\ webhookReqs = << >>
  /\ callReqs = << >>
  /\ statusReqs = << >>
  /\ subscriptionTier = [u \in Users |-> IF u = "u1" THEN "FREE" ELSE "PREMIUM"]
  /\ \E voice \in {None} \cup VoiceIds :
       personas =
         [p \in PersonaIds |->
            IF p = "p1"
              THEN [voiceId |-> voice, isPremium |-> FALSE,
                    memoryEnabled |-> TRUE, promptTemplate |-> "template1"]
              ELSE [voiceId |-> "v2", isPremium |-> TRUE,
                    memoryEnabled |-> FALSE, promptTemplate |-> "template2"]]
  /\ \E hasDefault \in BOOLEAN :
       voiceProfiles =
         [v \in VoiceIds |->
            [isDefault |-> (v = "v1" /\ hasDefault), isPremium |-> (v = "v2")]]
  /\ \E preferred \in {None} \cup VoiceIds :
       userPreferences = [u \in Users |-> IF u = "u1" THEN preferred ELSE None]
  /\ \E persona \in PersonaIds :
       conversations =
         << [userId |-> "u1", personaId |-> persona, endedAt |-> Null,
             endedAtWrites |-> 0],
            [userId |-> "u2", personaId |-> "p1", endedAt |-> Null,
             endedAtWrites |-> 0] >>
  /\ messages = << >>
  /\ updatedAt = [c \in 1..2 |-> 0]
  /\ ttsReqs = << >>
  /\ speechCalls = << >>
  /\ generateReqs = << >>
  /\ completionCalls = << >>
  /\ history = NoHistory
  /\ endCallReqs = << >>
  /\ sttReqs = << >>
  /\ transcriptionCalls = << >>
  /\ PureIdle

\* prisma.message.create: createdAt is now(); two rows created within the
\* same instant of the clock carry the same createdAt
CreateMessage(conversationId, role, content, audioUrl) ==
  Append(messages, [conversationId |-> conversationId, role |-> role,
                    content |-> content, audioUrl |-> audioUrl,
                    createdAt |-> clock])

(***************************************************************************)
(* POST of the text-to-speech route                                        *)
(***************************************************************************)
\* prisma.voiceProfile.findFirst({ where: { isDefault: true } })
DefaultVoice ==
  LET defaults == {v \in DOMAIN voiceProfiles : voiceProfiles[v].isDefault}
  IN IF defaults = {} THEN None ELSE CHOOSE v \in defaults : TRUE

\* the chain with the user's preference consulted before the persona's voice
FinalVoiceId_PreferenceFirst(voiceId, conversation, userId) ==
  IF voiceId # None THEN voiceId
  ELSE IF userPreferences[userId] # None THEN userPreferences[userId]
  ELSE IF personas[conversation.personaId].voiceId # None
    THEN personas[conversation.personaId].voiceId
  ELSE DefaultVoice

\* lines 73-106: the voice id of the request, else the persona's, else the
\* user's preferred one, else the default voice; None when there is none
FinalVoiceId(voiceId, conversation, userId) ==
  IF voiceId # None THEN voiceId
  ELSE IF personas[conversation.personaId].voiceId # None
    THEN personas[conversation.personaId].voiceId
  ELSE IF userPreferences[userId] # None THEN userPreferences[userId]
  ELSE DefaultVoice

\* a check that lets every tier use a premium voice
PremiumVoiceDenied_Never(voiceId, userId) == FALSE

\* lines 121-132: a premium voice is refused to a user on the FREE tier
PremiumVoiceDenied(voiceId, userId) ==
  voiceProfiles[voiceId].isPremium /\ subscriptionTier[userId] = "FREE"

\* a request of the route as it is answered or left waiting for the provider
TtsReq(pc, httpStatus, error, userId, conversationId, voiceId, finalVoiceId) ==
  [pc |-> pc, httpStatus |-> httpStatus, error |-> error, userId |-> userId,
   conversationId |-> conversationId, voiceId |-> voiceId,
   finalVoiceId |-> finalVoiceId, returnType |-> None, audioUrl |-> None,
   text |-> ""]

\* lines 20-132: session, body, conversation of the session's user, voice
\* resolution, voice profile lookup, premium check
TtsRequest(sessionUser, text, conversationId, voiceId, returnType) ==
  IF sessionUser = None
    THEN TtsReq("done", 401, "Unauthorized", None, Null, None, None)
  ELSE IF text = ""
    THEN TtsReq("done", 400, "Text content is required", sessionUser, Null,
                None, None)
  ELSE IF conversationId = Null
    THEN TtsReq("done", 400, "Conversation ID is required", sessionUser, Null,
                None, None)
  ELSE IF \/ conversationId \notin 1..Len(conversations)
          \/ conversations[conversationId].userId # sessionUser
    THEN TtsReq("done", 404, "Conversation not found", sessionUser, Null,
                None, None)
  ELSE
    LET finalVoiceId ==
          FinalVoiceId(voiceId, conversations[conversationId], sessionUser)
    IN IF finalVoiceId = None
         THEN TtsReq("done", 400,
                     "No voice specified and no default voice found",
                     sessionUser, conversationId, voiceId, None)
       ELSE IF finalVoiceId \notin DOMAIN voiceProfiles
         THEN TtsReq("done", 404, "Voice profile not found", sessionUser,
                     conversationId, voiceId, finalVoiceId)
       ELSE IF PremiumVoiceDenied(finalVoiceId, sessionUser)
         THEN TtsReq("done", 403, "This voice requires a premium subscription",
                     sessionUser, conversationId, voiceId, finalVoiceId)
       ELSE [TtsReq("speech", 0, None, sessionUser, conversationId, voiceId,
                    finalVoiceId) EXCEPT !.returnType = returnType,
                                         !.text = text]

TtsPOST ==
  /\ TurnReceived < MaxTurnRequests
  /\ \E sessionUser \in SessionInputs, text \in TextInputs,
        conversationId \in TurnConversationInputs, voiceId \in VoiceIdInputs,
        returnType \in ReturnTypeInputs :
       ttsReqs' =
         Append(ttsReqs, TtsRequest(sessionUser, text, conversationId, voiceId,
                                    returnType))
  /\ UNCHANGED <<callCredits, creditsAtStart, conversations, callLogs,
                 twilioCalls, clock, webhookReqs, callReqs, statusReqs,
                 subscriptionTier, personas, voiceProfiles, userPreferences,
                 messages, updatedAt, speechCalls, generateReqs,
                 completionCalls, history>>

\* generateSpeech, elevanlabs.ts lines 141-158: the audio as a file path for
\* returnType 'url', as base64 otherwise (no audioUrl then); an exception is
\* returned as { error }
GenerateSpeech(returnType, failed) ==
  [error |-> failed,
   audioUrl |-> IF ~failed /\ returnType = "url" THEN "file" ELSE None]

\* the route storing the message whatever the speech result says
AfterSpeech_IgnoreError(r, speechResult) ==
  [r EXCEPT !.pc = "message", !.audioUrl = speechResult.audioUrl]

\* lines 142-149: a speech result that carries an error is answered with 500
AfterSpeech(r, speechResult) ==
  IF speechResult.error
    THEN [r EXCEPT !.pc = "done", !.httpStatus = 500,
                   !.error = "Failed to generate speech"]
    ELSE [r EXCEPT !.pc = "message", !.audioUrl = speechResult.audioUrl]

\* lines 134-149: elevenLabsService.generateSpeech is invoked and its result
\* examined
TtsPOST_Speech(t) ==
  LET r == ttsReqs[t]
  IN /\ r.pc = "speech"
     /\ \E failed \in BOOLEAN :
          /\ speechCalls' =
               Append(speechCalls,
                      [voiceId |-> r.finalVoiceId, userId |-> r.userId,
                       request |-> t, error |-> failed])
          /\ ttsReqs' = [ttsReqs EXCEPT ![t] =
               AfterSpeech(r, GenerateSpeech(r.returnType, failed))]
     /\ UNCHANGED <<callCredits, creditsAtStart, conversations, callLogs,
                    twilioCalls, clock, webhookReqs, callReqs, statusReqs,
                    subscriptionTier, personas, voiceProfiles, userPreferences,
                    messages, updatedAt, generateReqs, completionCalls,
                    history>>

\* lines 151-166: the assistant message is stored and the speech returned
TtsPOST_Message(t) ==
  LET r == ttsReqs[t]
  IN /\ r.pc = "message"
     /\ messages' =
          CreateMessage(r.conversationId, "assistant", r.text, r.audioUrl)
     /\ \E tick \in 0..1 : clock' = clock + tick
     /\ ttsReqs' = [ttsReqs EXCEPT ![t] =
          [r EXCEPT !.pc = "done", !.httpStatus = 200]]
     /\ UNCHANGED <<callCredits, creditsAtStart, conversations, callLogs,
                    twilioCalls, webhookReqs, callReqs, statusReqs,
                    subscriptionTier, personas, voiceProfiles, userPreferences,
                    updatedAt, speechCalls, generateReqs, completionCalls,
                    history>>

(***************************************************************************)
(* TogetherAIService.getConversationHistory                                *)
(***************************************************************************)
\* the order the database returns rows of equal createdAt in is not fixed by
\* the query: by ascending or by descending id
TieOrders == {"asc", "desc"}

\* row a comes before row b under orderBy: { createdAt: 'desc' }
Before(a, b, ties) ==
  \/ messages[a].createdAt > messages[b].createdAt
  \/ /\ messages[a].createdAt = messages[b].createdAt
     /\ IF ties = "asc" THEN a < b ELSE a > b

\* prisma.message.findMany({ where: { conversationId },
\* orderBy: { createdAt: 'desc' } }), as the sequence of row ids
FindManyDesc(conversationId, ties) ==
  LET ids == {m \in 1..Len(messages) :
                messages[m].conversationId = conversationId}
      Position(m) == Cardinality({o \in ids : Before(o, m, ties)}) + 1
  IN [k \in 1..Cardinality(ids) |-> CHOOSE m \in ids : Position(m) = k]

\* take: n
Take(rows, n) == SubSeq(rows, 1, IF Len(rows) < n THEN Len(rows) ELSE n)

\* Array.prototype.reverse
Reverse(rows) == [k \in 1..Len(rows) |-> rows[Len(rows) + 1 - k]]

\* the window handed on as the database returned it, newest first
ConversationHistory_NewestFirst(conversationId, ties) ==
  Take(FindManyDesc(conversationId, ties), MAX_MESSAGES_HISTORY)

\* lines 171-180: the MAX_MESSAGES_HISTORY newest rows, oldest first
ConversationHistory(conversationId, ties) ==
  Reverse(Take(FindManyDesc(conversationId, ties), MAX_MESSAGES_HISTORY))

(***************************************************************************)
(* TogetherAIService.constructPrompt                                       *)
(*                                                                         *)
(* A prompt is a sequence of pieces: "\n", the labels "User: " and         *)
(* "Assistant: ", the heading, the cue "Assistant:", the persona template  *)
(* and the contents of messages.                                           *)
(***************************************************************************)
\* msg.role === 'user' ? 'User' : 'Assistant', with the ': ' that follows
RoleLabel(role) == IF role = "user" THEN "User: " ELSE "Assistant: "

\* lines 149-154: every message as `\n${role}: ${msg.content}`, joined by '\n'
RECURSIVE HistoryText(_)
HistoryText(conversationHistory) ==
  IF conversationHistory = << >> THEN << >>
  ELSE <<"\n", RoleLabel(Head(conversationHistory).role),
         Head(conversationHistory).content>>
         \o (IF Len(conversationHistory) > 1 THEN <<"\n">> ELSE << >>)
         \o HistoryText(Tail(conversationHistory))

\* the prompt with the history newest first
ConstructPrompt_NewestFirst(userInput, personaTemplate, conversationHistory, includePersonaContext) ==
  (IF includePersonaContext THEN <<personaTemplate, "\n", "\n">> ELSE << >>)
    \o <<"Conversation history:">>
    \o HistoryText([k \in 1..Len(conversationHistory) |->
         conversationHistory[Len(conversationHistory) + 1 - k]])
    \o <<"\n", "\n", "User: ", userInput, "\n", "Assistant:">>

\* lines 156-165
ConstructPrompt(userInput, personaTemplate, conversationHistory, includePersonaContext) ==
  (IF includePersonaContext THEN <<personaTemplate, "\n", "\n">> ELSE << >>)
    \o <<"Conversation history:">>
    \o HistoryText(conversationHistory)
    \o <<"\n", "\n", "User: ", userInput, "\n", "Assistant:">>

(***************************************************************************)
(* POST /api/ai/generate and TogetherAIService.generateResponse            *)
(***************************************************************************)
\* a request of the route as it is answered or left with work to do
GenerateReq(pc, httpStatus, personaId, conversationId) ==
  [pc |-> pc, httpStatus |-> httpStatus, personaId |-> personaId,
   conversationId |-> conversationId, window |-> << >>,
   userMessage |-> Null]

\* route.ts lines 8-28: required fields, persona lookup
GenerateRequest(transcribedText, personaId, conversationId) ==
  IF transcribedText = "" \/ personaId = None
    THEN GenerateReq("done", 400, None, Null)
  ELSE IF personaId \notin DOMAIN personas
    THEN GenerateReq("done", 404, None, Null)
  ELSE IF conversationId # Null
    THEN GenerateReq("userMessage", 0, personaId, conversationId)
  ELSE GenerateReq("completion", 0, personaId, Null)

GeneratePOST ==
  /\ TurnReceived < MaxTurnRequests
  /\ \E transcribedText \in TextInputs, personaId \in PersonaIdInputs,
        conversationId \in TurnConversationInputs :
       generateReqs' =
         Append(generateReqs,
                GenerateRequest(transcribedText, personaId, conversationId))
  /\ UNCHANGED <<callCredits, creditsAtStart, conversations, callLogs,
                 twilioCalls, clock, webhookReqs, callReqs, statusReqs,
                 subscriptionTier, personas, voiceProfiles, userPreferences,
                 messages, updatedAt, ttsReqs, speechCalls, completionCalls,
                 history>>

\* route.ts lines 30-39: the user message is saved first; a conversationId
\* that names no Conversation breaks the foreign key and the catch answers 500
GeneratePOST_UserMessage(g) ==
  LET r == generateReqs[g]
  IN /\ r.pc = "userMessage"
     /\ IF r.conversationId \in 1..Len(conversations)
          THEN /\ messages' = CreateMessage(r.conversationId, "user", "hi", None)
               /\ \E tick \in 0..1 : clock' = clock + tick
               /\ generateReqs' = [generateReqs EXCEPT ![g] =
                    [r EXCEPT !.pc = "history",
                              !.userMessage = Len(messages')]]
          ELSE /\ UNCHANGED <<messages, clock>>
               /\ generateReqs' = [generateReqs EXCEPT ![g] =
                    [r EXCEPT !.pc = "done", !.httpStatus = 500]]
     /\ UNCHANGED <<callCredits, creditsAtStart, conversations, callLogs,
                    twilioCalls, webhookReqs, callReqs, statusReqs,
                    subscriptionTier, personas, voiceProfiles, userPreferences,
                    updatedAt, ttsReqs, speechCalls, completionCalls, history>>

\* togetherai.ts lines 72-84: the persona is read again and the history of
\* the conversation fetched
generateResponse_History(g) ==
  LET r == generateReqs[g]
  IN /\ r.pc = "history"
     /\ \E ties \in TieOrders :
          generateReqs' = [generateReqs EXCEPT ![g] =
            [r EXCEPT !.pc = "completion",
                      !.window = ConversationHistory(r.conversationId, ties)]]
     /\ UNCHANGED <<callCredits, creditsAtStart, conversations, callLogs,
                    twilioCalls, clock, webhookReqs, callReqs, statusReqs,
                    subscriptionTier, personas, voiceProfiles, userPreferences,
                    messages, updatedAt, ttsReqs, speechCalls, completionCalls,
                    history>>

\* togetherai.ts lines 86-125: the prompt is posted to the completion
\* provider; without a conversationId the text is returned at once, and a
\* provider error is thrown to the catch of the route (500)
generateResponse_Completion(g) ==
  LET r == generateReqs[g]
  IN /\ r.pc = "completion"
     /\ completionCalls' =
          Append(completionCalls,
                 [personaId |-> r.personaId,
                  conversationId |-> r.conversationId, window |-> r.window,
                  userMessage |-> r.userMessage,
                  prompt |->
                    ConstructPrompt(
                      "hi", personas[r.personaId].promptTemplate,
                      [k \in 1..Len(r.window) |-> messages[r.window[k]]],
                      personas[r.personaId].memoryEnabled)])
     /\ \E ok \in BOOLEAN :
          generateReqs' = [generateReqs EXCEPT ![g] =
            IF ~ok THEN [r EXCEPT !.pc = "done", !.httpStatus = 500]
            ELSE IF r.conversationId # Null THEN [r EXCEPT !.pc = "assistant"]
            ELSE [r EXCEPT !.pc = "done", !.httpStatus = 200]]
     /\ UNCHANGED <<callCredits, creditsAtStart, conversations, callLogs,
                    twilioCalls, clock, webhookReqs, callReqs, statusReqs,
                    subscriptionTier, personas, voiceProfiles, userPreferences,
                    messages, updatedAt, ttsReqs, speechCalls, history>>

\* saveMessageToHistory, lines 190-196: the assistant message is created
saveMessageToHistory_Message(g) ==
  LET r == generateReqs[g]
  IN /\ r.pc = "assistant"
     /\ messages' = CreateMessage(r.conversationId, "assistant", "re", None)
     /\ \E tick \in 0..1 : clock' = clock + tick
     /\ generateReqs' = [generateReqs EXCEPT ![g] = [r EXCEPT !.pc = "touch"]]
     /\ UNCHANGED <<callCredits, creditsAtStart, conversations, callLogs,
                    twilioCalls, webhookReqs, callReqs, statusReqs,
                    subscriptionTier, personas, voiceProfiles, userPreferences,
                    updatedAt, ttsReqs, speechCalls, completionCalls, history>>

\* saveMessageToHistory, lines 198-202, then route.ts line 49: the
\* conversation's updatedAt is set to new Date() and the text returned
saveMessageToHistory_Conversation(g) ==
  LET r == generateReqs[g]
  IN /\ r.pc = "touch"
     /\ updatedAt' = [updatedAt EXCEPT ![r.conversationId] = clock]
     /\ generateReqs' = [generateReqs EXCEPT ![g] =
          [r EXCEPT !.pc = "done", !.httpStatus = 200]]
     /\ UNCHANGED <<callCredits, creditsAtStart, conversations, callLogs,
                    twilioCalls, clock, webhookReqs, callReqs, statusReqs,
                    subscriptionTier, personas, voiceProfiles, userPreferences,
                    messages, ttsReqs, speechCalls, completionCalls, history>>

(***************************************************************************)
(* POST /api/voice/stt                                                     *)
(***************************************************************************)
\* body.audioData
AudioInputs == {"", "audio"}
\* body.format, 'base64' when absent
FormatInputs == {"base64", "url", "wav"}

\* a request of the route as it is answered or left waiting for the provider
SttReq(pc, httpStatus, userId, conversationId) ==
  [pc |-> pc, httpStatus |-> httpStatus, userId |-> userId,
   conversationId |-> conversationId, text |-> ""]

\* lines 26-96: session, body, conversation of the session's user, format
SttRequest(sessionUser, audioData, conversationId, format) ==
  IF sessionUser = None THEN SttReq("done", 401, None, Null)
  ELSE IF audioData = "" \/ conversationId = Null
    THEN SttReq("done", 400, sessionUser, Null)
  ELSE IF \/ conversationId \notin 1..Len(conversations)
          \/ conversations[conversationId].userId # sessionUser
    THEN SttReq("done", 404, sessionUser, Null)
  ELSE IF format \notin {"base64", "url"}
    THEN SttReq("done", 400, sessionUser, conversationId)
  ELSE SttReq("transcribe", 0, sessionUser, conversationId)

SttPOST ==
  /\ TurnReceived < MaxTurnRequests
  /\ \E sessionUser \in SessionInputs, audioData \in AudioInputs,
        conversationId \in TurnConversationInputs, format \in FormatInputs :
       sttReqs' =
         Append(sttReqs,
                SttRequest(sessionUser, audioData, conversationId, format))
  /\ UNCHANGED <<callCredits, creditsAtStart, conversations, callLogs,
                 twilioCalls, clock, webhookReqs, callReqs, statusReqs,
                 turnVars, endCallReqs, transcriptionCalls, pureVars>>

\* whisperService.transcribeAudio / transcribeAudioUrl: the text, or an
\* empty text with the error of the exception
TranscribeAudio(failed) ==
  [error |-> failed, text |-> IF failed THEN "" ELSE "hi"]

\* the route storing the message whatever the transcription result says
AfterTranscription_IgnoreError(r, transcriptionResult) ==
  [r EXCEPT !.pc = "message", !.text = transcriptionResult.text]

\* lines 98-105: a transcription result that carries an error is answered
\* with 500
AfterTranscription(r, transcriptionResult) ==
  IF transcriptionResult.error
    THEN [r EXCEPT !.pc = "done", !.httpStatus = 500]
    ELSE [r EXCEPT !.pc = "message", !.text = transcriptionResult.text]

\* lines 75-105: the transcription provider is invoked and its result
\* examined
SttPOST_Transcribe(n) ==
  LET r == sttReqs[n]
  IN /\ r.pc = "transcribe"
     /\ \E failed \in BOOLEAN :
          /\ transcriptionCalls' =
               Append(transcriptionCalls, [request |-> n, error |-> failed])
          /\ sttReqs' = [sttReqs EXCEPT ![n] =
               AfterTranscription(r, TranscribeAudio(failed))]
     /\ UNCHANGED <<callCredits, creditsAtStart, conversations, callLogs,
                    twilioCalls, clock, webhookReqs, callReqs, statusReqs,
                    turnVars, endCallReqs, pureVars>>

\* lines 107-121: the user message is stored and the text returned
SttPOST_Message(n) ==
  LET r == sttReqs[n]
  IN /\ r.pc = "message"
     /\ messages' = CreateMessage(r.conversationId, "user", r.text, None)
     /\ \E tick \in 0..1 : clock' = clock + tick
     /\ sttReqs' = [sttReqs EXCEPT ![n] =
          [r EXCEPT !.pc = "done", !.httpStatus = 200]]
     /\ UNCHANGED <<callCredits, creditsAtStart, conversations, callLogs,
                    twilioCalls, webhookReqs, callReqs, statusReqs,
                    subscriptionTier, personas, voiceProfiles, userPreferences,
                    updatedAt, ttsReqs, speechCalls, generateReqs,
                    completionCalls, history, endCallReqs, transcriptionCalls,
                    pureVars>>

NextTurn ==
  \/ SttPOST
  \/ \E n \in 1..Len(sttReqs) : SttPOST_Transcribe(n)
  \/ \E n \in 1..Len(sttReqs) : SttPOST_Message(n)
  \/ TtsPOST /\ UNCHANGED restVars
  \/ \E t \in 1..Len(ttsReqs) : TtsPOST_Speech(t) /\ UNCHANGED restVars
  \/ \E t \in 1..Len(ttsReqs) : TtsPOST_Message(t) /\ UNCHANGED restVars
  \/ GeneratePOST /\ UNCHANGED restVars
  \/ \E g \in 1..Len(generateReqs) : GeneratePOST_UserMessage(g) /\ UNCHANGED restVars
  \/ \E g \in 1..Len(generateReqs) : generateResponse_History(g) /\ UNCHANGED restVars
  \/ \E g \in 1..Len(generateReqs) : generateResponse_Completion(g) /\ UNCHANGED restVars
  \/ \E g \in 1..Len(generateReqs) : saveMessageToHistory_Message(g) /\ UNCHANGED restVars
  \/ \E g \in 1..Len(generateReqs) : saveMessageToHistory_Conversation(g) /\ UNCHANGED restVars

\* the turn endpoints under concurrent requests
SpecTurn == InitTurn /\ [][NextTurn]_vars

(***************************************************************************)
(* The history window over conversations of every length.                  *)
(***************************************************************************)
\* two conversations and no message yet
InitHistory ==
  /\ callCredits = [u \in Users |-> 0]
  /\ creditsAtStart = callCredits
  /\ callLogs = << >>
  /\ twilioCalls = << >>
  /\ clock = 0
  /\ webhookReqs = << >>
  /\ callReqs = << >>
  /\ statusReqs = << >>
  /\ TurnIdle
  /\ PureIdle
  /\ endCallReqs = << >>
  /\ conversations =
       << [userId |-> "u1", personaId |-> "p1", endedAt |-> Null,
           endedAtWrites |-> 0],
          [userId |-> "u2", personaId |-> "p1", endedAt |-> Null,
           endedAtWrites |-> 0] >>

\* rows of the Message table that belong to the conversation
MessagesOf(conversationId) ==
  {m \in 1..Len(messages) : messages[m].conversationId = conversationId}

\* prisma.message.create by any endpoint, on either conversation; the table
\* is built before the window is read
MessageCreate ==
  /\ history = NoHistory
  /\ Len(messages) < MaxMessages
  /\ \E conversationId \in 1..Len(conversations) :
       /\ conversationId # 1
            => Cardinality(MessagesOf(conversationId)) < MaxOtherMessages
       /\ messages' = CreateMessage(conversationId, "user", "hi", None)
  /\ \E tick \in 0..1 : clock' = clock + tick
  /\ UNCHANGED <<callCredits, creditsAtStart, conversations, callLogs,
                 twilioCalls, webhookReqs, callReqs, statusReqs,
                 subscriptionTier, personas, voiceProfiles, userPreferences,
                 updatedAt, ttsReqs, speechCalls, generateReqs,
                 completionCalls, history>>

\* a call of getConversationHistory on the table as it stands
getConversationHistory ==
  /\ \E conversationId \in 1..Len(conversations), ties \in TieOrders :
       history' = [conversationId |-> conversationId, asOf |-> Len(messages),
                   window |-> ConversationHistory(conversationId, ties)]
  /\ UNCHANGED <<callCredits, creditsAtStart, conversations, callLogs,
                 twilioCalls, clock, webhookReqs, callReqs, statusReqs,
                 subscriptionTier, personas, voiceProfiles, userPreferences,
                 messages, updatedAt, ttsReqs, speechCalls, generateReqs,
                 completionCalls>>

NextHistory ==
  \/ MessageCreate /\ UNCHANGED restVars
  \/ getConversationHistory /\ UNCHANGED restVars

\* getConversationHistory over every table the bounds allow
SpecHistory == InitHistory /\ [][NextHistory]_vars

(***************************************************************************)
(* twilioService.endCall                                                   *)
(***************************************************************************)
\* sid argument of endCall: a call the provider placed, or an unknown sid
EndCallArgs == 1..2

\* endCall closing the CallLog of the call itself
endCall_ClosesCallLog ==
  /\ Received < MaxRequests
  /\ \E callSid \in EndCallArgs, accepted \in BOOLEAN :
       /\ accepted => callSid \in 1..Len(twilioCalls)
       /\ endCallReqs' =
            Append(endCallReqs,
                   [sid |-> callSid,
                    httpStatus |-> IF accepted THEN 200 ELSE 500])
       /\ callLogs' =
            [id \in 1..Len(callLogs) |->
               IF accepted /\ callLogs[id].twilioCallSid = callSid
                 THEN [callLogs[id] EXCEPT !.status = "completed"]
                 ELSE callLogs[id]]
  /\ UNCHANGED <<callCredits, creditsAtStart, conversations,
                 twilioCalls, clock, webhookReqs, callReqs, statusReqs,
                 turnVars, sttReqs, transcriptionCalls, pureVars>>

\* lines 215-223: twilioClient.calls(callSid).update({ status: 'completed' }).
\* The provider takes the request for a call it knows (200 stands for the
\* returned call) or rejects it, and the error is thrown on (500).
endCall ==
  /\ Received < MaxRequests
  /\ \E callSid \in EndCallArgs, accepted \in BOOLEAN :
       /\ accepted => callSid \in 1..Len(twilioCalls)
       /\ endCallReqs' =
            Append(endCallReqs,
                   [sid |-> callSid,
                    httpStatus |-> IF accepted THEN 200 ELSE 500])
  /\ UNCHANGED <<callCredits, creditsAtStart, conversations, callLogs,
                 twilioCalls, clock, webhookReqs, callReqs, statusReqs,
                 turnVars, sttReqs, transcriptionCalls, pureVars>>

\* one call has been placed for u1: its CallLog is on record, in a status
\* the callbacks so far left it in, with or without a Conversation
InitEndCall ==
  /\ TurnIdle
  /\ PureIdle
  /\ endCallReqs = << >>
  /\ callCredits = [u \in Users |-> 0]
  /\ creditsAtStart = [u \in Users |-> IF u = "u1" THEN 1 ELSE 0]
  /\ clock = 0
  /\ webhookReqs = << >>
  /\ callReqs = << >>
  /\ statusReqs = << >>
  /\ \E conversationId \in ConversationInputs :
       /\ conversations =
            IF conversationId = Null THEN << >>
            ELSE << [userId |-> "u1", personaId |-> "p1", endedAt |-> Null,
                     endedAtWrites |-> 0] >>
       /\ twilioCalls =
            << [to |-> <<"+", "1">>, userId |-> "u1",
                personaId |-> IF conversationId = Null THEN None ELSE "p1",
                conversationId |-> conversationId] >>
       /\ \E status \in {"initiated", "ringing", "in_progress"} :
            callLogs =
              << [userId |-> "u1", conversationId |-> conversationId,
                  twilioCallSid |-> 1, phoneNumber |-> <<"+", "1">>,
                  status |-> status, endTime |-> Null, duration |-> Null,
                  errorMessage |-> None] >>

NextEndCall ==
  \/ endCall
  \/ StatusPOST /\ UNCHANGED <<turnVars, restVars>>
  \/ \E j \in 1..Len(statusReqs) :
       StatusPOST_Conversation(j) /\ UNCHANGED <<turnVars, restVars>>
  \/ \E j \in 1..Len(statusReqs) :
       StatusPOST_CallLog(j) /\ UNCHANGED <<turnVars, restVars>>

\* endCall and the status callbacks on a placed call
SpecEndCall == InitEndCall /\ [][NextEndCall]_vars

(***************************************************************************)
(* constructPrompt over every history the bounds allow.                    *)
(***************************************************************************)
\* the messages a history is made of
HistoryMessages ==
  [role : {"user", "assistant"}, content : {"hi", "hello"}]

\* the histories of at most n messages
RECURSIVE Histories(_)
Histories(n) ==
  IF n = 0 THEN {<< >>}
  ELSE Histories(n - 1)
         \cup {Append(h, m) : h \in {g \in Histories(n - 1) : Len(g) = n - 1},
                              m \in HistoryMessages}

\* the arguments of a call of constructPrompt
InitPrompt ==
  /\ callCredits = [u \in Users |-> 0]
  /\ creditsAtStart = callCredits
  /\ conversations = << >>
  /\ callLogs = << >>
  /\ twilioCalls = << >>
  /\ clock = 0
  /\ webhookReqs = << >>
  /\ callReqs = << >>
  /\ statusReqs = << >>
  /\ TurnIdle
  /\ endCallReqs = << >>
  /\ promptArgs \in
       [userInput : {"how are you?", "hi"},
        personaTemplate : {"You are helpful."},
        conversationHistory : Histories(MaxHistory),
        includePersonaContext : BOOLEAN]
  /\ prompt = << >>
  /\ rawResponse = << >>
  /\ cleanedResponse = << >>

\* the call of constructPrompt
constructPrompt ==
  /\ prompt = << >>
  /\ prompt' = ConstructPrompt(promptArgs.userInput, promptArgs.personaTemplate,
                               promptArgs.conversationHistory,
                               promptArgs.includePersonaContext)
  /\ UNCHANGED <<callCredits, creditsAtStart, conversations, callLogs,
                 twilioCalls, clock, webhookReqs, callReqs, statusReqs,
                 turnVars, endCallReqs, sttReqs, transcriptionCalls,
                 promptArgs, rawResponse, cleanedResponse>>

NextPrompt ==
  \/ constructPrompt

\* constructPrompt on every argument the bounds allow
SpecPrompt == InitPrompt /\ [][NextPrompt]_vars

(***************************************************************************)
(* TogetherAIService.cleanResponse, on sequences of characters.            *)
(***************************************************************************)
\* s begins with p
StartsWith(s, p) == Len(s) >= Len(p) /\ SubSeq(s, 1, Len(p)) = p

\* line 214: cleaned.replace(/^Assistant:?\s*/i, ''): the word in any case,
\* a colon if there is one, and the white space that follows
StripLabel(s) ==
  IF StartsWith(ToLowerCase(s), <<"a", "s", "s", "i", "s", "t", "a", "n", "t">>)
    THEN LET rest == SubSeq(s, 10, Len(s))
         IN TrimStart(IF Len(rest) > 0 /\ Head(rest) = ":"
                        THEN Tail(rest) ELSE rest)
    ELSE s

\* String.prototype.indexOf, counted from 1; 0 when there is no occurrence
IndexOf(s, marker) ==
  LET hits == {i \in 1..(Len(s) - Len(marker) + 1) :
                 SubSeq(s, i, i + Len(marker) - 1) = marker}
  IN IF hits = {} THEN 0 ELSE CHOOSE i \in hits : \A j \in hits : i <= j

\* line 217
endMarkers ==
  << <<"<", "e", "n", "d", ">">>, <<"U", "s", "e", "r", ":">>,
     <<"H", "u", "m", "a", "n", ":">> >>

\* lines 219-222: the text before the marker, trimmed, when the marker occurs
CutAt(cleaned, marker) ==
  IF IndexOf(cleaned, marker) # 0
    THEN Trim(SubSeq(cleaned, 1, IndexOf(cleaned, marker) - 1))
    ELSE cleaned

\* lines 208-225
CleanResponse(text) ==
  CutAt(CutAt(CutAt(StripLabel(Trim(text)), endMarkers[1]), endMarkers[2]),
        endMarkers[3])

\* the pieces raw completion texts are put together from
Pieces ==
  {<<"A", "s", "s", "i", "s", "t", "a", "n", "t", ":">>,
   <<"A", "s", "s", "i", "s", "t", "a", "n", "t">>,
   <<"a", "s", "s", "i", "s", "t", "a", "n", "t", ":">>,
   <<" ">>, <<"\n">>, <<"o", "k">>} \cup {endMarkers[k] : k \in 1..3}

\* the texts of at most n pieces
RECURSIVE Texts(_)
Texts(n) ==
  IF n = 0 THEN {<< >>}
  ELSE Texts(n - 1) \cup {t \o p : t \in Texts(n - 1), p \in Pieces}

\* cleanedResponse before cleanResponse has returned
NotCleaned == <<"not cleaned">>

\* the raw text of a completion
InitClean ==
  /\ callCredits = [u \in Users |-> 0]
  /\ creditsAtStart = callCredits
  /\ conversations = << >>
  /\ callLogs = << >>
  /\ twilioCalls = << >>
  /\ clock = 0
  /\ webhookReqs = << >>
  /\ callReqs = << >>
  /\ statusReqs = << >>
  /\ TurnIdle
  /\ endCallReqs = << >>
  /\ promptArgs = NoPromptArgs
  /\ prompt = << >>
  /\ rawResponse \in Texts(MaxPieces)
  /\ cleanedResponse = NotCleaned

\* the call of cleanResponse
cleanResponse ==
  /\ cleanedResponse = NotCleaned
  /\ cleanedResponse' = CleanResponse(rawResponse)
  /\ UNCHANGED <<callCredits, creditsAtStart, conversations, callLogs,
                 twilioCalls, clock, webhookReqs, callReqs, statusReqs,
                 turnVars, endCallReqs, sttReqs, transcriptionCalls,
                 promptArgs, prompt, rawResponse>>

NextClean ==
  \/ cleanResponse

\* cleanResponse on every raw text the bounds allow
SpecClean == InitClean /\ [][NextClean]_vars

(***************************************************************************)
(* One audio turn: the three turn endpoints called one after the other,    *)
(* each with the answer of the one before.                                 *)
(***************************************************************************)
\* POST /api/voice/stt with the recorded audio
AudioTurn_Stt ==
  /\ sttReqs = << >>
  /\ \E sessionUser \in SessionInputs, conversationId \in TurnConversationInputs,
        format \in FormatInputs :
       sttReqs' = <<SttRequest(sessionUser, "audio", conversationId, format)>>
  /\ UNCHANGED <<callCredits, creditsAtStart, conversations, callLogs,
                 twilioCalls, clock, webhookReqs, callReqs, statusReqs,
                 turnVars, endCallReqs, transcriptionCalls, pureVars>>

\* POST /api/ai/generate with the transcript the speech-to-text request
\* returned, on the same conversation
AudioTurn_Generate ==
  /\ Len(sttReqs) = 1
  /\ sttReqs[1].pc = "done"
  /\ sttReqs[1].httpStatus = 200
  /\ generateReqs = << >>
  /\ \E personaId \in PersonaIds :
       generateReqs' =
         <<GenerateRequest(sttReqs[1].text, personaId,
                           sttReqs[1].conversationId)>>
  /\ UNCHANGED <<callCredits, creditsAtStart, conversations, callLogs,
                 twilioCalls, clock, webhookReqs, callReqs, statusReqs,
                 subscriptionTier, personas, voiceProfiles, userPreferences,
                 messages, updatedAt, ttsReqs, speechCalls, completionCalls,
                 history, restVars>>

\* POST of the text-to-speech route with the text the generate request
\* returned, on the same conversation
AudioTurn_Tts ==
  /\ Len(generateReqs) = 1
  /\ generateReqs[1].pc = "done"
  /\ generateReqs[1].httpStatus = 200
  /\ ttsReqs = << >>
  /\ \E voiceId \in VoiceIdInputs, returnType \in ReturnTypeInputs :
       ttsReqs' =
         <<TtsRequest(sttReqs[1].userId, "re", generateReqs[1].conversationId,
                      voiceId, returnType)>>
  /\ UNCHANGED <<callCredits, creditsAtStart, conversations, callLogs,
                 twilioCalls, clock, webhookReqs, callReqs, statusReqs,
                 subscriptionTier, personas, voiceProfiles, userPreferences,
                 messages, updatedAt, speechCalls, generateReqs,
                 completionCalls, history, restVars>>

NextAudioTurn ==
  \/ AudioTurn_Stt
  \/ Len(sttReqs) = 1 /\ SttPOST_Transcribe(1)
  \/ Len(sttReqs) = 1 /\ SttPOST_Message(1)
  \/ AudioTurn_Generate
  \/ Len(generateReqs) = 1 /\ GeneratePOST_UserMessage(1) /\ UNCHANGED restVars
  \/ Len(generateReqs) = 1 /\ generateResponse_History(1) /\ UNCHANGED restVars
  \/ Len(generateReqs) = 1 /\ generateResponse_Completion(1) /\ UNCHANGED restVars
  \/ Len(generateReqs) = 1 /\ saveMessageToHistory_Message(1) /\ UNCHANGED restVars
  \/ Len(generateReqs) = 1 /\ saveMessageToHistory_Conversation(1) /\ UNCHANGED restVars
  \/ AudioTurn_Tts
  \/ Len(ttsReqs) = 1 /\ TtsPOST_Speech(1) /\ UNCHANGED restVars
  \/ Len(ttsReqs) = 1 /\ TtsPOST_Message(1) /\ UNCHANGED restVars

\* one audio turn through the three endpoints
SpecAudioTurn == InitTurn /\ [][NextAudioTurn]_vars

(***************************************************************************)
(* twilioService.initiateWhatsAppCall beside the call route: every code    *)
(* path that places a call.                                                *)
(***************************************************************************)
\* origin of a call placed through the service instead of the route
ViaService == -2

\* lines 77-96: the call as the service holds it when it first waits; a
\* missing TWILIO_PHONE_NUMBER is thrown before anything is written
InitiateRequest(to, userId, personaId, conversationId, fromNumber) ==
  IF ~fromNumber THEN [NewCallReq(ViaService) EXCEPT !.userId = userId]
  ELSE [NewCallReq(ViaService) EXCEPT
          !.userId = userId, !.phoneNumber = to, !.personaId = personaId,
          !.conversationRecord = conversationId,
          !.pc = IF conversationId = Null
                   THEN "serviceConversation" ELSE "serviceTwilio"]

initiateWhatsAppCall ==
  /\ Received < MaxRequests
  /\ \E userId \in Users, personaId \in Personas,
        conversationId \in ConversationInputs, fromNumber \in BOOLEAN :
       callReqs' =
         Append(callReqs,
                InitiateRequest(UserPhone[userId], userId, personaId,
                                conversationId, fromNumber))
  /\ UNCHANGED <<callCredits, creditsAtStart, conversations, callLogs,
                 twilioCalls, clock, webhookReqs, statusReqs>>

\* lines 86-96: prisma.conversation.create
initiateWhatsAppCall_Conversation(i) ==
  LET r == callReqs[i]
      id == Len(conversations) + 1
  IN /\ r.pc = "serviceConversation"
     /\ conversations' =
          Append(conversations,
                 [userId |-> r.userId, personaId |-> r.personaId,
                  endedAt |-> Null, endedAtWrites |-> 0])
     /\ callReqs' = [callReqs EXCEPT ![i] =
          [r EXCEPT !.conversationRecord = id, !.conversationCreated = id,
                    !.pc = "serviceTwilio"]]
     /\ UNCHANGED <<callCredits, creditsAtStart, callLogs, twilioCalls, clock,
                    webhookReqs, statusReqs>>

\* lines 98-110: twilioClient.calls.create; a rejection is rethrown
initiateWhatsAppCall_Twilio(i) ==
  LET r == callReqs[i]
  IN /\ r.pc = "serviceTwilio"
     /\ \E accepted \in BOOLEAN :
          IF accepted
            THEN /\ twilioCalls' =
                      Append(twilioCalls,
                             [to |-> r.phoneNumber, userId |-> r.userId,
                              personaId |-> r.personaId,
                              conversationId |-> r.conversationRecord])
                 /\ callReqs' = [callReqs EXCEPT ![i] =
                      [r EXCEPT !.sid = Len(twilioCalls) + 1,
                                !.pc = "serviceCallLog"]]
            ELSE /\ twilioCalls' = twilioCalls
                 /\ callReqs' = [callReqs EXCEPT ![i] = [r EXCEPT !.pc = "done"]]
     /\ UNCHANGED <<callCredits, creditsAtStart, conversations, callLogs,
                    clock, webhookReqs, statusReqs>>

\* lines 112-130: prisma.callLog.create, then the call is returned; the
\* user's callCredits is not touched
initiateWhatsAppCall_CallLog(i) ==
  LET r == callReqs[i]
  IN /\ r.pc = "serviceCallLog"
     /\ IF r.conversationRecord \in 1..Len(conversations)
          THEN /\ callLogs' =
                    Append(callLogs,
                           [userId |-> r.userId,
                            conversationId |-> r.conversationRecord,
                            twilioCallSid |-> r.sid,
                            phoneNumber |-> r.phoneNumber,
                            status |-> "initiated", endTime |-> Null,
                            duration |-> Null, errorMessage |-> None])
               /\ callReqs' = [callReqs EXCEPT ![i] =
                    [r EXCEPT !.callLogCreated = Len(callLogs) + 1,
                              !.pc = "done"]]
          ELSE /\ callLogs' = callLogs
               /\ callReqs' = [callReqs EXCEPT ![i] = [r EXCEPT !.pc = "done"]]
     /\ UNCHANGED <<callCredits, creditsAtStart, conversations, twilioCalls,
                    clock, webhookReqs, statusReqs>>

NextPlace ==
  \/ CallPOST_Client /\ UNCHANGED <<turnVars, restVars>>
  \/ \E i \in 1..Len(callReqs) : CallPOST_Conversation(i) /\ UNCHANGED <<turnVars, restVars>>
  \/ \E i \in 1..Len(callReqs) : CallPOST_Twilio(i) /\ UNCHANGED <<turnVars, restVars>>
  \/ \E i \in 1..Len(callReqs) : CallPOST_CallLog(i) /\ UNCHANGED <<turnVars, restVars>>
  \/ \E i \in 1..Len(callReqs) : CallPOST_Decrement(i) /\ UNCHANGED <<turnVars, restVars>>
  \/ initiateWhatsAppCall /\ UNCHANGED <<turnVars, restVars>>
  \/ \E i \in 1..Len(callReqs) : initiateWhatsAppCall_Conversation(i) /\ UNCHANGED <<turnVars, restVars>>
  \/ \E i \in 1..Len(callReqs) : initiateWhatsAppCall_Twilio(i) /\ UNCHANGED <<turnVars, restVars>>
  \/ \E i \in 1..Len(callReqs) : initiateWhatsAppCall_CallLog(i) /\ UNCHANGED <<turnVars, restVars>>

\* the call route and the service placing calls side by side
SpecPlace == Init /\ [][NextPlace]_vars

(***************************************************************************)
(* The call route when every request comes from one user's session.        *)
(***************************************************************************)
\* the user whose session every request of SpecSession carries
SessionUser == "u2"

NextSession ==
  \/ CallPOST_Session(SessionUser) /\ UNCHANGED <<turnVars, restVars>>
  \/ \E i \in 1..Len(callReqs) : CallPOST_Conversation(i) /\ UNCHANGED <<turnVars, restVars>>
  \/ \E i \in 1..Len(callReqs) : CallPOST_Twilio(i) /\ UNCHANGED <<turnVars, restVars>>
  \/ \E i \in 1..Len(callReqs) : CallPOST_CallLog(i) /\ UNCHANGED <<turnVars, restVars>>
  \/ \E i \in 1..Len(callReqs) : CallPOST_Decrement(i) /\ UNCHANGED <<turnVars, restVars>>

\* the call route receiving requests authenticated as SessionUser only
SpecSession == Init /\ [][NextSession]_vars

(***************************************************************************)
(* Properties.                                                             *)
(***************************************************************************)
\* requests of the call route for user u for which the provider placed a call
Placed(u) ==
  {i \in 1..Len(callReqs) : callReqs[i].userId = u /\ callReqs[i].sid # Null}

\* calls the provider accepted on behalf of user u
Accepted(u) == {sid \in 1..Len(twilioCalls) : twilioCalls[sid].userId = u}

\* the CallLog rows of user u
CallLogsOf(u) == {id \in 1..Len(callLogs) : callLogs[id].userId = u}

\* status request j took the step, or was received by it
StatusStepped(j) == j > Len(statusReqs) \/ statusReqs'[j] # statusReqs[j]

\* C1: a user who starts with N call credits has at most N call-initiation
\* requests succeed in placing a call, however the requests interleave.
C1_AtMostNCallsPlaced ==
  \A u \in Users : Cardinality(Placed(u)) <= creditsAtStart[u]

\* C2: every user's callCredits is >= 0 in every reachable state.
C2_CreditsNeverNegative == \A u \in Users : callCredits[u] >= 0

\* C3: when a user who started with exactly 1 credit has sent the trigger
\* message from their own number and the webhook has reported the call as
\* initiated, that user has exactly one CallLog, in status initiated at its
\* creation and holding the call's sid, and callCredits is 0.
C3_TriggerCreatesLogAndTakesCredit ==
  \A u \in Users : \A w \in 1..Len(webhookReqs) :
    LET q == webhookReqs[w]
    IN (/\ creditsAtStart[u] = 1
        /\ q.pc = "done" /\ q.httpStatus = 200 /\ IsTrigger(q.body)
        /\ NormalizePhone(q.from) = UserPhone[u])
       => /\ callCredits[u] = 0
          /\ Cardinality(CallLogsOf(u)) = 1
          /\ \E id \in CallLogsOf(u) :
               callLogs[id].twilioCallSid = callReqs[q.callReq].sid

\* C4: once a CallLog's status is terminal, no step changes that status.
C4_TerminalStatusIsFinal ==
  [][\A id \in 1..Len(callLogs) :
       callLogs[id].status \in Terminal
         => callLogs'[id].status = callLogs[id].status]_vars

\* C5: a status callback that re-applies to a CallLog the terminal status it
\* already has changes nothing: no step of such a callback alters a CallLog
\* (endTime and duration stay as first set) or writes a Conversation.
C5_TerminalReplayIsNoOp ==
  [][\A j \in 1..Len(statusReqs') :
       LET r == statusReqs'[j]
       IN (/\ StatusStepped(j)
           /\ r.callLogId # Null
           /\ callLogs[r.callLogId].status \in Terminal
           /\ r.status = callLogs[r.callLogId].status)
          => /\ callLogs' = callLogs
             /\ conversations' = conversations]_vars

\* C6: a Conversation's endedAt is written at most once.
C6_EndedAtWrittenOnce ==
  \A c \in 1..Len(conversations) : conversations[c].endedAtWrites <= 1

\* C7: no step of a status callback whose signature is invalid changes a
\* CallLog or a Conversation.
C7_InvalidSignatureChangesNothing ==
  [][\A j \in 1..Len(statusReqs') :
       (StatusStepped(j) /\ ~statusReqs'[j].sigValid)
         => /\ callLogs' = callLogs
            /\ conversations' = conversations]_vars

\* C8: a call-initiation request creates its CallLog and takes its credit
\* only once the provider has accepted its call, so a request whose provider
\* call failed has created no CallLog and taken no credit; per user there
\* are never more CallLogs, nor more credits taken, than calls accepted.
C8_LogAndCreditOnlyAfterAcceptance ==
  /\ \A i \in 1..Len(callReqs) :
       callReqs[i].sid = Null
         => callReqs[i].callLogCreated = Null /\ callReqs[i].credited = 0
  /\ \A u \in Users :
       /\ Cardinality(CallLogsOf(u)) <= Cardinality(Accepted(u))
       /\ creditsAtStart[u] - callCredits[u] <= Cardinality(Accepted(u))
  /\ \A id \in 1..Len(callLogs) :
       /\ callLogs[id].twilioCallSid \in 1..Len(twilioCalls)
       /\ twilioCalls[callLogs[id].twilioCallSid].userId = callLogs[id].userId

\* C8 witness: the provider refused the call of a request for a known user,
\* which ended with 500, while that user has no CallLog and the starting
\* balance.
C8_Witness ==
  \E i \in 1..Len(callReqs) :
    LET r == callReqs[i]
    IN /\ r.userId \in Users /\ r.phoneNumber # << >>
       /\ r.pc = "done" /\ r.httpStatus = 500 /\ r.sid = Null
       /\ CallLogsOf(r.userId) = {}
       /\ callCredits[r.userId] = creditsAtStart[r.userId]

\* C9: a call-initiation request received for a user whose callCredits is 0
\* is answered 403 in the step that checks the credits, which changes no
\* table and places no call; the request then takes no further step, so it
\* never creates a Conversation or a CallLog, places a call or takes a credit.
C9_NoCreditsRejectedWithoutEffect ==
  /\ [][\A i \in 1..Len(callReqs') :
          (/\ i > Len(callReqs)
           /\ callReqs'[i].userId \in Users
           /\ callCredits[callReqs'[i].userId] = 0)
          => /\ callReqs'[i].httpStatus = 403
             /\ callReqs'[i].pc = "done"
             /\ UNCHANGED <<callCredits, conversations, callLogs, twilioCalls>>]_vars
  /\ [](\A i \in 1..Len(callReqs) :
          callReqs[i].httpStatus = 403
            => /\ callReqs[i].pc = "done"
               /\ callReqs[i].conversationCreated = Null
               /\ callReqs[i].sid = Null
               /\ callReqs[i].callLogCreated = Null
               /\ callReqs[i].credited = 0)

\* C9 witness: a request for a user with no credit left has been answered 403.
C9_Witness ==
  \E i \in 1..Len(callReqs) :
    /\ callReqs[i].httpStatus = 403
    /\ callCredits[callReqs[i].userId] = 0

\* C10: every CallLog with a conversationId references a Conversation of the
\* CallLog's own user.
C10_CallLogConversationSameOwner ==
  \A id \in 1..Len(callLogs) :
    callLogs[id].conversationId # Null
      => conversations[callLogs[id].conversationId].userId = callLogs[id].userId

\* status request j takes the step that runs prisma.callLog.update
UpdatesCallLog(j) ==
  /\ j <= Len(statusReqs)
  /\ statusReqs[j].pc = "callLog"
  /\ statusReqs'[j].pc # "callLog"
  /\ statusReqs'[j].httpStatus # 500

\* C11: every status callback the route has finished with was answered with
\* the 200 "received" acknowledgment.
C11_CallbackAlwaysAcknowledged ==
  \A j \in 1..Len(statusReqs) :
    (statusReqs[j].via = "route" /\ statusReqs[j].pc = "done")
      => statusReqs[j].httpStatus = 200

C14_FailedCallbackApplied ==
  [][\A j \in 1..Len(statusReqs) :
       LET r == statusReqs[j]
       IN (r.status = "failed" /\ UpdatesCallLog(j))
          => /\ callLogs'[r.callLogId].status = "failed"
             /\ callLogs'[r.callLogId].endTime # Null
             /\ r.duration # Null
                  => callLogs'[r.callLogId].duration = r.duration
             /\ r.errorMessage # None
                  => callLogs'[r.callLogId].errorMessage = r.errorMessage
             /\ conversations' = conversations]_vars

\* position of a status in initiated -> ringing -> in_progress -> terminal
StatusRank(status) ==
  CASE status = "initiated" -> 0
    [] status = "ringing" -> 1
    [] status = "in_progress" -> 2
    [] OTHER -> 3

\* C15: no step moves a CallLog's status backwards in the order
\* initiated -> ringing -> in_progress -> terminal.
C15_StatusOnlyMovesForward ==
  [][\A id \in 1..Len(callLogs) :
       StatusRank(callLogs'[id].status) >= StatusRank(callLogs[id].status)]_vars

\* the Conversation a text-to-speech request passed the ownership check with
TtsConversation(r) == conversations[r.conversationId]

\* the request resolved a stored premium voice for a user on the FREE tier
PremiumForFree(r) ==
  /\ r.finalVoiceId \in DOMAIN voiceProfiles
  /\ voiceProfiles[r.finalVoiceId].isPremium
  /\ subscriptionTier[r.userId] = "FREE"

\* C16: no completion is generated with a premium Persona for a conversation
\* whose owner is on the FREE tier.
C16_NoPremiumPersonaForFreeUser ==
  \A k \in 1..Len(completionCalls) :
    LET call == completionCalls[k]
    IN ~ /\ personas[call.personaId].isPremium
         /\ call.conversationId # Null
         /\ subscriptionTier[conversations[call.conversationId].userId]
              = "FREE"

\* C17: a text-to-speech request whose resolved voice is premium while the
\* user's tier is FREE is answered 403 in the step that receives it, a step
\* that invokes no synthesis and stores no Message; and every synthesis with a
\* premium voice is for a user whose tier is not FREE.
C17_PremiumVoiceNeedsPaidTier ==
  /\ [][\A t \in 1..Len(ttsReqs') :
          (t > Len(ttsReqs) /\ PremiumForFree(ttsReqs'[t]))
            => /\ ttsReqs'[t].pc = "done"
               /\ ttsReqs'[t].httpStatus = 403
               /\ UNCHANGED <<speechCalls, messages>>]_vars
  /\ [](\A k \in 1..Len(speechCalls) :
          voiceProfiles[speechCalls[k].voiceId].isPremium
            => subscriptionTier[speechCalls[k].userId] # "FREE")

\* C17 witness: the FREE user was refused the premium voice v2 with 403, no
\* Message was stored for them, and the PREMIUM user had v2 synthesized.
C17_Witness ==
  /\ \E t \in 1..Len(ttsReqs) :
       /\ PremiumForFree(ttsReqs[t])
       /\ ttsReqs[t].httpStatus = 403
       /\ \A m \in 1..Len(messages) :
            messages[m].conversationId # ttsReqs[t].conversationId
  /\ \E k \in 1..Len(speechCalls) :
       /\ speechCalls[k].voiceId = "v2"
       /\ subscriptionTier[speechCalls[k].userId] = "PREMIUM"

\* C18: for every text-to-speech request that reached voice resolution, the
\* explicit voice id wins; without it the persona's voice; without that the
\* user's preferredVoiceId; without that the isDefault voice; and with none
\* of the four the request fails with the no-voice error.
C18_VoiceResolutionPriority ==
  \A t \in 1..Len(ttsReqs) :
    LET r == ttsReqs[t]
        explicit == r.voiceId
        persona == personas[TtsConversation(r).personaId].voiceId
        preferred == userPreferences[r.userId]
        defaults == {v \in VoiceIds : voiceProfiles[v].isDefault}
    IN r.conversationId # Null =>
         /\ explicit # None => r.finalVoiceId = explicit
         /\ (explicit = None /\ persona # None) => r.finalVoiceId = persona
         /\ (explicit = None /\ persona = None /\ preferred # None)
              => r.finalVoiceId = preferred
         /\ (explicit = None /\ persona = None /\ preferred = None
               /\ defaults # {})
              => r.finalVoiceId \in defaults
         /\ (explicit = None /\ persona = None /\ preferred = None
               /\ defaults = {})
              => /\ r.pc = "done" /\ r.httpStatus = 400
                 /\ r.error = "No voice specified and no default voice found"

\* C18 witness: with a persona voice, a different preferred voice and a
\* default in the store, one request resolved its explicit id and another,
\* without an explicit id, the persona's voice.
C18_Witness ==
  \E t1 \in 1..Len(ttsReqs) : \E t2 \in 1..Len(ttsReqs) :
    LET r1 == ttsReqs[t1]
        r2 == ttsReqs[t2]
    IN /\ r1.conversationId = 1 /\ r2.conversationId = 1
       /\ personas[TtsConversation(r1).personaId].voiceId = "v2"
       /\ userPreferences[r1.userId] = "v1"
       /\ voiceProfiles["v1"].isDefault
       /\ r1.voiceId = "v1" /\ r1.finalVoiceId = "v1"
       /\ r2.voiceId = None /\ r2.finalVoiceId = "v2"

\* C19: when a text-to-speech request supplies a voice id that no
\* VoiceProfile carries, resolution goes on with the persona's voice, the
\* user's preference and the default, and does not fail on the missing id.
C19_UnknownVoiceIdFallsThrough ==
  \A t \in 1..Len(ttsReqs) :
    LET r == ttsReqs[t]
    IN (/\ r.conversationId # Null
        /\ r.voiceId # None
        /\ r.voiceId \notin DOMAIN voiceProfiles)
       => /\ r.finalVoiceId = FinalVoiceId(None, TtsConversation(r), r.userId)
          /\ r.error # "Voice profile not found"

\* the rows the conversation of the last read had when it was read
HistoryRows ==
  {m \in 1..history.asOf : messages[m].conversationId = history.conversationId}

\* the window of the last read holds at most 10 rows of its conversation, as
\* many as there are up to 10, each once, and no row left out is newer than a
\* row it holds
RecentWindow ==
  LET window == history.window
      held == {window[k] : k \in 1..Len(window)}
  IN /\ Len(window) <= 10
     /\ Len(window) = Cardinality(held)
     /\ held \subseteq HistoryRows
     /\ Len(window) < 10 => held = HistoryRows
     /\ \A m \in HistoryRows \ held : \A h \in held :
          messages[m].createdAt <= messages[h].createdAt

\* C20, as stated: the history window holds at most 10 messages, the most
\* recent ones, in strictly increasing creation-time order.
C20_WindowStrictlyIncreasing ==
  /\ RecentWindow
  /\ \A k \in 1..(Len(history.window) - 1) :
       messages[history.window[k]].createdAt
         < messages[history.window[k + 1]].createdAt

\* C20, amended: the history window holds at most 10 messages, the most
\* recent ones, oldest first: creation times never decrease along it (they
\* increase strictly wherever they differ).
C20_WindowOldestFirst ==
  /\ RecentWindow
  /\ \A k \in 1..(Len(history.window) - 1) :
       messages[history.window[k]].createdAt
         <= messages[history.window[k + 1]].createdAt

\* C20 witness: a conversation of more than 10 messages was read, the window
\* holds 10 of them and two neighbours in it share their creation time.
C20_Witness ==
  /\ history.conversationId = 1
  /\ Cardinality(HistoryRows) > 10
  /\ Len(history.window) = 10
  /\ \E k \in 1..9 :
       messages[history.window[k]].createdAt
         = messages[history.window[k + 1]].createdAt
  /\ \E k \in 1..9 :
       messages[history.window[k]].createdAt
         < messages[history.window[k + 1]].createdAt

\* C24: a webhook request goes on to request call initiation if and only if
\* its Body, trimmed and lower-cased, is "hi" (of the bodies drawn: "Hi" and
\* " hI "); any other body is answered 200 at once and no call-initiation
\* request ever stems from it.
C24_CallRequestedIffTrigger ==
  /\ \A w \in 1..Len(webhookReqs) :
       LET q == webhookReqs[w]
       IN IF q.body \in {<<"H", "i">>, <<" ", "h", "I", " ">>}
            THEN q.pc = "fetch" \/ q.callReq # 0
            ELSE q.pc = "done" /\ q.httpStatus = 200 /\ q.callReq = 0
  /\ \A i \in 1..Len(callReqs) :
       callReqs[i].origin # 0
         => /\ webhookReqs[callReqs[i].origin].callReq = i
            /\ webhookReqs[callReqs[i].origin].body
                 \in {<<"H", "i">>, <<" ", "h", "I", " ">>}

\* C24 witness: the body " hI " led to a call-initiation request, and the
\* body "hi!" was acknowledged without one.
C24_Witness ==
  /\ \E w \in 1..Len(webhookReqs) :
       /\ webhookReqs[w].body = <<" ", "h", "I", " ">>
       /\ webhookReqs[w].callReq # 0
       /\ callReqs[webhookReqs[w].callReq].origin = w
  /\ \E w \in 1..Len(webhookReqs) :
       /\ webhookReqs[w].body = <<"h", "i", "!">>
       /\ webhookReqs[w].pc = "done" /\ webhookReqs[w].httpStatus = 200

\* C29: in every state the call route answers a request without phoneNumber
\* with 400, one naming an unknown user with 404 and one of a user without
\* credits with 403; a request whose provider call fails is answered 500;
\* and the success response (200) is only given with the sid of a call the
\* provider placed.
C29_FailureKindsMapToStatus ==
  /\ [](\A phoneNumber \in PhoneInputs, personaId \in PersonaInputs,
           conversationId \in ConversationInputs,
           bodyUserId \in UserIdInputs, sessionUser \in SessionInputs :
          LET userId == IF bodyUserId # None THEN bodyUserId ELSE sessionUser
              answer == CallRequest(0, phoneNumber, personaId, conversationId,
                                    bodyUserId, sessionUser).httpStatus
          IN /\ phoneNumber = << >> => answer = 400
             /\ (phoneNumber # << >> /\ userId = GhostUser) => answer = 404
             /\ (phoneNumber # << >> /\ userId \in Users
                   /\ callCredits[userId] <= 0) => answer = 403)
  /\ [][\A i \in 1..Len(callReqs) :
          (/\ callReqs[i].pc = "twilio"
           /\ callReqs'[i].pc # "twilio"
           /\ twilioCalls' = twilioCalls)
          => callReqs'[i].pc = "done" /\ callReqs'[i].httpStatus = 500]_vars
  /\ [](\A i \in 1..Len(callReqs) :
          LET r == callReqs[i]
          IN /\ r.httpStatus = 200
                  => r.sid \in 1..Len(twilioCalls) /\ r.pc = "done"
             /\ r.httpStatus = 400 => r.sid = Null
             /\ r.httpStatus = 404 => r.userId \notin Users /\ r.sid = Null
             /\ r.httpStatus = 403 => r.userId \in Users /\ r.sid = Null)

\* C29 witness: of three requests one named an unknown user and got 404,
\* one was refused by the provider and got 500, one placed a call and got
\* the success response.
C29_Witness ==
  \E i \in 1..Len(callReqs) : \E j \in 1..Len(callReqs) :
    \E k \in 1..Len(callReqs) :
      /\ callReqs[i].httpStatus = 404 /\ callReqs[i].userId = GhostUser
      /\ callReqs[j].httpStatus = 500 /\ callReqs[j].sid = Null
      /\ callReqs[j].phoneNumber # << >>
      /\ callReqs[k].httpStatus = 200 /\ callReqs[k].sid # Null

\* C28: a call of endCall leaves every CallLog and every Conversation as
\* they were; a CallLog only changes in a step of a status callback.
C28_EndCallChangesNoRecord ==
  [][/\ endCallReqs' # endCallReqs => UNCHANGED <<callLogs, conversations>>
     /\ callLogs' # callLogs
          => \E j \in 1..Len(statusReqs) :
               statusReqs[j].pc = "callLog" /\ statusReqs'[j].pc = "done"]_vars

\* C28 witness: endCall was accepted for the placed call while its CallLog
\* stayed as it was, and a completed callback then closed the CallLog.
C28_Witness ==
  /\ \E e \in 1..Len(endCallReqs) :
       endCallReqs[e].sid = 1 /\ endCallReqs[e].httpStatus = 200
  /\ \E j \in 1..Len(statusReqs) :
       /\ statusReqs[j].sid = 1 /\ statusReqs[j].pc = "done"
       /\ statusReqs[j].status = "completed"
  /\ callLogs[1].status = "completed"
  /\ callLogs[1].endTime # Null

\* the lines of a prompt: its pieces between the "\n", empty lines left out
RECURSIVE Lines(_, _)
Lines(pieces, line) ==
  IF pieces = << >> THEN (IF line = << >> THEN << >> ELSE <<line>>)
  ELSE IF Head(pieces) = "\n"
    THEN (IF line = << >> THEN << >> ELSE <<line>>) \o Lines(Tail(pieces), << >>)
  ELSE Lines(Tail(pieces), Append(line, Head(pieces)))

\* C21: the prompt constructPrompt returns reads, line by line: the persona
\* template when includePersonaContext is true (nothing when it is false),
\* the heading, every history message in the order given as a line
\* "User: <content>" or "Assistant: <content>", the line "User: <input>",
\* and last the cue "Assistant:".
C21_PromptShape ==
  prompt # << >> =>
    LET h == promptArgs.conversationHistory
    IN Lines(prompt, << >>) =
         (IF promptArgs.includePersonaContext
            THEN << <<promptArgs.personaTemplate>> >> ELSE << >>)
         \o << <<"Conversation history:">> >>
         \o [k \in 1..Len(h) |->
              <<IF h[k].role = "user" THEN "User: " ELSE "Assistant: ",
                h[k].content>>]
         \o << <<"User: ", promptArgs.userInput>>, <<"Assistant:">> >>

\* C21 witness: the prompt for the template "You are helpful.", the history
\* user "hi", assistant "hello" and the input "how are you?".
C21_Witness ==
  /\ promptArgs.includePersonaContext
  /\ promptArgs.userInput = "how are you?"
  /\ promptArgs.conversationHistory =
       << [role |-> "user", content |-> "hi"],
          [role |-> "assistant", content |-> "hello"] >>
  /\ Lines(prompt, << >>) =
       << <<"You are helpful.">>, <<"Conversation history:">>,
          <<"User: ", "hi">>, <<"Assistant: ", "hello">>,
          <<"User: ", "how are you?">>, <<"Assistant:">> >>

\* every request of the turn endpoints has been answered
TurnQuiet ==
  /\ \A n \in 1..Len(sttReqs) : sttReqs[n].pc = "done"
  /\ \A t \in 1..Len(ttsReqs) : ttsReqs[t].pc = "done"
  /\ \A g \in 1..Len(generateReqs) : generateReqs[g].pc = "done"

\* C22: a prompt built for a persona whose memoryEnabled is false holds no
\* prior history: under the heading there is at most the line of the turn's
\* own user message, which the route stored before the history was read.
C22_NoHistoryWithoutMemory ==
  \A k \in 1..Len(completionCalls) :
    ~personas[completionCalls[k].personaId].memoryEnabled
      => Len(Lines(completionCalls[k].prompt, << >>)) <= 4

\* C26: the step in which the transcription or the speech provider returns
\* a result carrying an error answers the request with an HTTP error and
\* stores no message, and an answered request takes no further step.
C26_ProviderErrorStoresNoMessage ==
  [][/\ \A n \in 1..Len(sttReqs) :
          /\ sttReqs[n].pc = "transcribe"
          /\ Len(transcriptionCalls') = Len(transcriptionCalls) + 1
          /\ transcriptionCalls'[Len(transcriptionCalls')] =
               [request |-> n, error |-> TRUE]
          => /\ sttReqs'[n].pc = "done"
             /\ sttReqs'[n].httpStatus >= 400
             /\ messages' = messages
     /\ \A t \in 1..Len(ttsReqs) :
          /\ ttsReqs[t].pc = "speech"
          /\ Len(speechCalls') = Len(speechCalls) + 1
          /\ speechCalls'[Len(speechCalls')].request = t
          /\ speechCalls'[Len(speechCalls')].error
          => /\ ttsReqs'[t].pc = "done"
             /\ ttsReqs'[t].httpStatus >= 400
             /\ messages' = messages
     /\ \A n \in 1..Len(sttReqs) :
          sttReqs[n].pc = "done" => sttReqs'[n] = sttReqs[n]
     /\ \A t \in 1..Len(ttsReqs) :
          ttsReqs[t].pc = "done" => ttsReqs'[t] = ttsReqs[t]]_vars

\* C26 witness: a transcription and a speech synthesis have both returned an
\* error, both requests are answered 500 and no message is stored.
C26_Witness ==
  /\ \E k \in 1..Len(transcriptionCalls) :
       /\ transcriptionCalls[k].error
       /\ sttReqs[transcriptionCalls[k].request].httpStatus = 500
  /\ \E k \in 1..Len(speechCalls) :
       /\ speechCalls[k].error
       /\ ttsReqs[speechCalls[k].request].httpStatus = 500
  /\ TurnQuiet
  /\ messages = << >>

\* C30: once every request is answered, the updatedAt of a conversation is
\* not older than the createdAt of any of its messages.
C30_UpdatedAtNotOlderThanMessages ==
  TurnQuiet =>
    \A k \in 1..Len(messages) :
      updatedAt[messages[k].conversationId] >= messages[k].createdAt

\* the position of the earliest occurrence of any stop marker, 0 if none
EarliestMarker(s) ==
  LET hits == {IndexOf(s, endMarkers[k]) : k \in 1..3} \ {0}
  IN IF hits = {} THEN 0 ELSE CHOOSE i \in hits : \A j \in hits : i <= j

\* the cleanup as stated: a leading "Assistant:" (in any case) removed, the
\* text cut at the earliest stop marker, surrounding white space trimmed
CleanedAsStated(text) ==
  LET t == Trim(text)
      u == IF StartsWith(ToLowerCase(t),
                         <<"a", "s", "s", "i", "s", "t", "a", "n", "t", ":">>)
             THEN Trim(SubSeq(t, 11, Len(t))) ELSE t
  IN IF EarliestMarker(u) = 0 THEN u
     ELSE Trim(SubSeq(u, 1, EarliestMarker(u) - 1))

\* C23: the text cleanResponse returns is the raw text with a leading
\* "Assistant:" label removed, surrounding white space trimmed and everything
\* from the earliest stop marker on cut off.
C23_CleanupAsStated ==
  cleanedResponse # NotCleaned => cleanedResponse = CleanedAsStated(rawResponse)

\* the messages of a role in a conversation
TurnMessages(conversationId, role) ==
  {k \in 1..Len(messages) : /\ messages[k].conversationId = conversationId
                            /\ messages[k].role = role}

\* C25: when the audio turn has gone through speech-to-text, completion and
\* text-to-speech, its conversation has gained exactly one user message and
\* exactly one assistant message, and that assistant message carries the
\* audio reference.
C25_OneMessagePerRole ==
  (Len(ttsReqs) = 1 /\ ttsReqs[1].pc = "done" /\ ttsReqs[1].httpStatus = 200)
    => LET c == ttsReqs[1].conversationId
       IN /\ Cardinality(TurnMessages(c, "user")) = 1
          /\ Cardinality(TurnMessages(c, "assistant")) = 1
          /\ \A k \in TurnMessages(c, "assistant") :
               messages[k].audioUrl # None

\* C27: the step in which speech synthesis fails after the completion of the
\* same turn succeeded leaves every message as it is, the assistant text
\* message of the completion among them, answers only the text-to-speech
\* request with the synthesis failure, and no message is added afterwards.
C27_SynthesisFailureKeepsCompletion ==
  [][/\ (/\ Len(ttsReqs) = 1
         /\ ttsReqs[1].pc = "speech"
         /\ Len(speechCalls') = Len(speechCalls) + 1
         /\ speechCalls'[Len(speechCalls')].error)
          => /\ messages' = messages
             /\ \E k \in TurnMessages(ttsReqs[1].conversationId, "assistant") :
                  /\ messages'[k].content = "re"
                  /\ messages'[k].audioUrl = None
             /\ ttsReqs'[1].pc = "done"
             /\ ttsReqs'[1].httpStatus = 500
             /\ ttsReqs'[1].error = "Failed to generate speech"
             /\ generateReqs' = generateReqs
             /\ generateReqs[1].httpStatus = 200
             /\ sttReqs' = sttReqs
     /\ (Len(ttsReqs) = 1 /\ ttsReqs[1].httpStatus = 500)
          => messages' = messages]_vars

\* C27 witness: the turn's completion was answered 200, the synthesis failed
\* and was answered 500, and the conversation holds the assistant message of
\* the completion and no message from the text-to-speech request.
C27_Witness ==
  /\ Len(ttsReqs) = 1
  /\ ttsReqs[1].httpStatus = 500
  /\ speechCalls # << >>
  /\ speechCalls[1].error
  /\ generateReqs[1].httpStatus = 200
  /\ Cardinality(TurnMessages(ttsReqs[1].conversationId, "assistant")) = 1
  /\ Len(messages) = 3

\* C31: the history block of a prompt sent to the completion provider never
\* holds the user message of the turn being answered, so the new input
\* stands in the prompt once, as its last "User:" line.
C31_InputOnceInPrompt ==
  \A k \in 1..Len(completionCalls) :
    \A i \in 1..Len(completionCalls[k].window) :
      completionCalls[k].window[i] # completionCalls[k].userMessage

\* C32: a callback the provider sends for a call it accepted from a request
\* with a resolved user is never discarded as unknown: the call-status
\* route finds the CallLog holding the call's id.
C32_NoCallbackDiscardedAsUnknown ==
  \A j \in 1..Len(statusReqs) :
    LET r == statusReqs[j]
    IN (/\ r.via = "route" /\ r.sigValid
        /\ r.sid \in 1..Len(twilioCalls)
        /\ twilioCalls[r.sid].userId \in Users)
       => r.callLogId # Null

\* no call-placing request is in flight
PlaceQuiet == \A i \in 1..Len(callReqs) : callReqs[i].pc = "done"

\* C33: with no request in flight, every user has as many outbound CallLogs
\* as calls the provider accepted for that user, and has had as many credits
\* deducted.
C33_CallsLogsCreditsAgree ==
  PlaceQuiet =>
    \A u \in Users :
      /\ Cardinality(CallLogsOf(u)) = Cardinality(Accepted(u))
      /\ creditsAtStart[u] - callCredits[u] = Cardinality(Accepted(u))

\* C34: while every call-initiation request is authenticated as SessionUser,
\* no other user loses a credit or has a CallLog attributed.
C34_OnlyOwnCreditsSpent ==
  \A u \in Users \ {SessionUser} :
    /\ callCredits[u] = creditsAtStart[u]
    /\ CallLogsOf(u) = {}

\* C35: every message of a conversation was appended by a request
\* authenticated as the conversation's owner; the completion route reads no
\* session, so such a request came through the speech-to-text or the
\* text-to-speech route and passed its ownership check.
C35_MessagesOnlyFromOwner ==
  \A k \in 1..Len(messages) :
    LET c == messages[k].conversationId
    IN \/ \E n \in 1..Len(sttReqs) :
            /\ sttReqs[n].conversationId = c
            /\ sttReqs[n].userId = conversations[c].userId
       \/ \E t \in 1..Len(ttsReqs) :
            /\ ttsReqs[t].conversationId = c
            /\ ttsReqs[t].userId = conversations[c].userId

\* C36: for every CallLog table and every callback (call id, status,
\* duration) the call-status route and twilioService.updateCallStatus come
\* to the same result: both know the call id or both do not and answer
\* alike, and for a known id both write the same CallLog row and both or
\* neither end the Conversation.
C36_RouteAndServiceAgree ==
  \A sid \in 1..(Len(twilioCalls) + 1) :
    \A status \in {"ringing", "completed", "failed"} :
      \A duration \in {Null, 42} :
        LET route ==
              StatusRequest(sid, status,
                            IF duration = 42 THEN <<"4", "2">> ELSE << >>, TRUE)
            service == UpdateCallStatusRequest(sid, status, duration, None)
        IN /\ (route.callLogId = Null) = (service.callLogId = Null)
           /\ route.callLogId = Null
                => route.httpStatus = service.httpStatus
           /\ route.callLogId # Null
                => /\ UpdateCallLog(route) = UpdateCallLog(service)
                   /\ route.endsConversation = service.endsConversation

\* C37: a call-initiation request that failed at the provider step (missing
\* credentials or a refused call) has left no Conversation of its own
\* behind, nor a CallLog, nor taken a credit.
C37_FailedAttemptLeavesNothing ==
  \A i \in 1..Len(callReqs) :
    LET r == callReqs[i]
    IN (r.pc = "done" /\ r.httpStatus = 500 /\ r.sid = Null)
       => /\ r.conversationCreated = Null
          /\ r.callLogCreated = Null
          /\ r.credited = 0

====
